---- MODULE Spec2Model ----
(***************************************************************************)
(* Verification model of dvd90/story-time.                                 *)
(*                                                                         *)
(* The parts of the repository that are modelled, each with a              *)
(* specification of its own over the shared variables:                     *)
(*   SpecRegistry : HandlerManager.register and SessionRegistry as maps    *)
(*   SpecManager  : HandlerManager.processAction and the action handlers   *)
(*   SpecAgent    : AgentSessionManager lifecycle and RoomEventHandler     *)
(*   SpecStore    : the MongoDB-backed Store, with concurrent upserts      *)
(*   SpecServer   : the Express REST routes over the Store                 *)
(*   SpecStories  : the same routes, with the story requests of two users  *)
(*   SpecClient   : the Next.js pages and the connection-details route     *)
(*   SpecTools    : the storytelling tools of a room's agent               *)
(*   SpecSynopsis : createStorySynopsis over streamed LLM answers          *)
(*   SpecStream   : generateFullStory driving the streamStory generator    *)
(*   SpecRecorder : the VoiceRecorder component and its timer              *)
(*   SpecVoice    : AgentSessionManager.updateVoiceId on a started agent   *)
(*   SpecLibrary  : the story routes alone, two users and three stories    *)
(*   SpecChunks   : POST /api/story/audio-chunks over bounded story texts  *)
(*   SpecFlow     : the OnboardingFlow component and its three requests    *)
(***************************************************************************)
EXTENDS Integers, Sequences, FiniteSets, TLC

VARIABLES
    \* ---- livekit-service: agent process ----
    handlers,      \* HandlerManager.handlers : Map<string, ActionHandler>
    managerRoom,   \* HandlerManager.roomName as passed to its constructor
    sessions,      \* SessionRegistry.sessions : Map<string, SessionContext>
    tts,           \* voice of each session's TTS (session.tts)
    textStorage,   \* store-handler.ts singleton TextStorage.storage
    opLog,         \* history of register/unregister calls (SpecRegistry)
    pc,            \* position of AgentSessionManager.initialize()
    shutPc,        \* position of the shutdown callback
    subscribed,    \* RoomEventHandler.isSubscribed (listener attached)
    lastReq,       \* the last data packet / action request handled
    lastFrom,      \* participant identity of the last data packet
    lastResp,      \* the response processAction returned for lastReq
    resps,         \* publishData calls made while handling lastReq
    called,        \* handlers whose handle() ran for lastReq
    spoken,        \* texts passed to session.say while handling lastReq
    threw,         \* whether the last call let an exception escape
    stored,        \* per id: the text of the last store action answered success
    jobMetadata,   \* ctx.job.metadata of the room's job
    managerVoiceId, \* AgentSessionManager.voiceId
    \* ---- server: Express API over the MongoDB store ----
    users,         \* the User collection, in insertion order
    stories,       \* the Story collection, in insertion order
    pending,       \* upserts that have run their query and not yet written
    http,          \* the last HTTP request with the response it was given
    storeOps,      \* Store methods called while serving the last request
    completion,    \* per user: whether POST /api/onboarding/complete has been
                   \* answered success, and whether onboarding was started again since
    \* ---- livekit-service: storytelling tools ----
    sessionContexts, \* storytelling-tools sessionContexts : Map<room, StoryContext>
    sessionStories,  \* storytelling-tools sessionStories : Map<room, {synopsis, pages}>
    tool,          \* the tool call in flight or just returned, with its result
    gen,           \* frame of a streamStory generator driven by generateFullStory
    fullStory,     \* what generateFullStory returned
    succeeded,     \* per room: which tools returned success since its last cleanupSession
    \* ---- client: Next.js app ----
    page,          \* what the last render of the app page served
    conn,          \* the last answer of the connection-details route
    onboardingPage, \* what the last render of the onboarding page served
    recorder,      \* state, refs and timers of the VoiceRecorder component
    flow           \* state of the OnboardingFlow component and its handler in flight

agentVars == <<handlers, managerRoom, sessions, tts, textStorage, opLog, pc, shutPc,
               subscribed, lastReq, lastFrom, lastResp, resps, called, spoken, threw,
               stored, jobMetadata, managerVoiceId>>

serverVars == <<users, stories, pending, http, storeOps, completion>>

\* storytelling tools and the story-paging generator
storyVars == <<sessionContexts, sessionStories, tool, gen, fullStory, succeeded>>

\* Next.js client: page renders and the connection-details route
clientVars == <<page, conn, onboardingPage, recorder, flow>>

vars == <<agentVars, serverVars, storyVars, clientVars>>

(***************************************************************************)
(* JavaScript values.  Every value is a record with a type tag, so that    *)
(* typeof, truthiness and optional fields are computed, not assumed.       *)
(***************************************************************************)
Undefined == [type |-> "undefined", val |-> ""]
Null == [type |-> "null", val |-> ""]
Num5 == [type |-> "number", val |-> "5"]
Str(s) == [type |-> "string", val |-> s]
\* a string held as the sequence of its characters, where the code looks
\* inside it (trim)
Text(chars) == [type |-> "text", val |-> chars]

IsString(v) == v.type = "string"
Truthy(v) ==
    CASE v.type = "undefined" -> FALSE
      [] v.type = "null" -> FALSE
      [] v.type = "string" -> v.val # ""
      [] v.type = "text" -> v.val # <<>>
      [] OTHER -> TRUE

\* payload.<f> of a request payload; a non-object payload has no fields
Obj(text, id, voice_id) ==
    [type |-> "object", text |-> text, id |-> id, voice_id |-> voice_id]
Field(payload, f) == IF payload.type = "object" THEN payload[f] ELSE Undefined

(***************************************************************************)
(* A JavaScript Map, as the insertion-ordered list of its entries.         *)
(***************************************************************************)
MapHas(m, k) == \E i \in 1..Len(m) : m[i][1] = k
MapIndex(m, k) == CHOOSE i \in 1..Len(m) : m[i][1] = k
MapGet(m, k) == IF MapHas(m, k) THEN m[MapIndex(m, k)][2] ELSE Undefined
MapSetFirstWins(m, k, v) == IF MapHas(m, k) THEN m ELSE Append(m, <<k, v>>)
MapSet(m, k, v) ==
    IF MapHas(m, k)
    THEN [m EXCEPT ![MapIndex(m, k)] = <<k, v>>]
    ELSE Append(m, <<k, v>>)
MapDelete(m, k) ==
    IF MapHas(m, k)
    THEN LET i == MapIndex(m, k)
         IN  SubSeq(m, 1, i - 1) \o SubSeq(m, i + 1, Len(m))
    ELSE m
MapKeys(m) == [i \in 1..Len(m) |-> m[i][1]]
MapSize(m) == Len(m)

RECURSIVE Join(_)
Join(names) ==
    IF names = <<>> THEN ""
    ELSE IF Len(names) = 1 THEN names[1]
    ELSE names[1] \o ", " \o Join(Tail(names))

(***************************************************************************)
(* handlers/base.ts: ActionResponse and the BaseActionHandler helpers.     *)
(* An absent optional field is Undefined.                                  *)
(***************************************************************************)
ResponseDropsError(err, data) ==
    [success |-> FALSE, message |-> Undefined, data |-> data, error |-> Undefined]
SuccessResponse(message, data) ==
    [success |-> TRUE, message |-> Str(message), data |-> data, error |-> Undefined]
ErrorResponse(err, data) ==
    [success |-> FALSE, message |-> Undefined, data |-> data, error |-> Str(err)]

\* What an SDK call of a handler does: it resolves, rejects with an Error
\* object, or rejects with a value that is not an Error.
Outcomes == {"ok", "error", "thrown"}
SdkErrorMessage == "AgentSession is not running"
ThrownText == "aborted"
\* error instanceof Error ? error.message : fallback
CaughtMessage(outcome, fallback) ==
    IF outcome = "error" THEN SdkErrorMessage ELSE fallback

(***************************************************************************)
(* The handler classes.  "CustomHandler" stands for any ActionHandler a    *)
(* caller registers: the interface makes validate optional and lets        *)
(* handle reject.                                                          *)
(***************************************************************************)
BuiltinHandlers == {"SayHandler", "StoreHandler", "PlayHandler", "ChangeVoiceHandler"}
HandlerClasses == BuiltinHandlers \cup {"CustomHandler"}

\* new <cls>(): a handler object; inst tells two objects of one class apart
NewHandler(cls, inst) == [type |-> "handler", cls |-> cls, inst |-> inst]

ActionName(h) ==
    CASE h.cls = "SayHandler" -> "say"
      [] h.cls = "StoreHandler" -> "store"
      [] h.cls = "PlayHandler" -> "play"
      [] h.cls = "ChangeVoiceHandler" -> "change_voice"
      [] OTHER -> "customAction"

HasValidate(h) == h.cls \in BuiltinHandlers

NonEmptyString(v) == IsString(v) /\ Len(v.val) > 0

ValidateAcceptsAll(h, payload) == TRUE
Validate(h, payload) ==
    CASE h.cls = "SayHandler" ->
            Truthy(payload) /\ NonEmptyString(Field(payload, "text"))
      [] h.cls = "StoreHandler" ->
            /\ Truthy(payload)
            /\ NonEmptyString(Field(payload, "id"))
            /\ NonEmptyString(Field(payload, "text"))
      [] h.cls = "PlayHandler" ->
            Truthy(payload) /\ NonEmptyString(Field(payload, "id"))
      [] h.cls = "ChangeVoiceHandler" ->
            Truthy(payload) /\ NonEmptyString(Field(payload, "voice_id"))
      [] OTHER -> TRUE

\* SessionRegistry.get with the roomName a handler context carries
RegistryGet(sess, roomName) ==
    IF IsString(roomName) THEN MapGet(sess, roomName.val) ELSE Undefined

\* The result of one handle() call: the response (or a propagated
\* exception), and the storage, TTS voices and session.say calls after it.
HandleResult(t, r, st, tt, sp) ==
    [threw |-> t, response |-> r, storage |-> st, tts |-> tt, spoken |-> sp]

SayHandle(request, st, tt, outcome) ==
    LET text == Field(request.payload, "text")
    IN  IF outcome = "ok"
        THEN HandleResult(FALSE,
                 SuccessResponse("Text spoken successfully",
                                 [type |-> "object", text |-> text]),
                 st, tt, <<text>>)
        ELSE HandleResult(FALSE,
                 ErrorResponse(CaughtMessage(outcome, "Failed to speak text"), Undefined),
                 st, tt, <<text>>)

StoreHandleFirstWins(request, st, tt) ==
    LET id == Field(request.payload, "id")
        text == Field(request.payload, "text")
        st2 == MapSetFirstWins(st, id.val, text)
    IN  HandleResult(FALSE,
            SuccessResponse("Text stored successfully",
                [type |-> "object", id |-> id, textLength |-> Len(text.val),
                 totalStored |-> MapSize(st2)]),
            st2, tt, <<>>)
StoreHandle(request, st, tt) ==
    LET id == Field(request.payload, "id")
        text == Field(request.payload, "text")
        st2 == MapSet(st, id.val, text)
    IN  HandleResult(FALSE,
            SuccessResponse("Text stored successfully",
                [type |-> "object", id |-> id, textLength |-> Len(text.val),
                 totalStored |-> MapSize(st2)]),
            st2, tt, <<>>)

PlayHandle(request, st, tt, outcome) ==
    LET id == Field(request.payload, "id")
        text == IF IsString(id) THEN MapGet(st, id.val) ELSE Undefined
    IN  IF ~Truthy(text)
        THEN HandleResult(FALSE,
                 ErrorResponse("No text found with id: " \o id.val,
                     [type |-> "object", id |-> id, availableIds |-> MapKeys(st)]),
                 st, tt, <<>>)
        ELSE IF outcome = "ok"
        THEN HandleResult(FALSE,
                 SuccessResponse("Text played successfully",
                     [type |-> "object", id |-> id, text |-> text]),
                 st, tt, <<text>>)
        ELSE HandleResult(FALSE,
                 ErrorResponse(CaughtMessage(outcome, "Failed to play text"), Undefined),
                 st, tt, <<text>>)

ChangeVoiceHandle(request, roomName, sess, st, tt, outcome) ==
    LET voiceId == Field(request.payload, "voice_id")
        sessionContext == RegistryGet(sess, roomName)
    IN  IF sessionContext = Undefined
        THEN HandleResult(FALSE,
                 ErrorResponse("Session not found for this room", Undefined), st, tt, <<>>)
        ELSE IF outcome = "ok"
        THEN HandleResult(FALSE,
                 SuccessResponse("Voice changed successfully",
                     [type |-> "object", voice_id |-> voiceId]),
                 st, [tt EXCEPT ![sessionContext.session] = voiceId.val], <<>>)
        ELSE HandleResult(FALSE,
                 ErrorResponse(CaughtMessage(outcome, "Failed to change voice"), Undefined),
                 st, tt, <<>>)

CustomHandle(st, tt, outcome) ==
    IF outcome = "ok"
    THEN HandleResult(FALSE, SuccessResponse("Action completed", Undefined), st, tt, <<>>)
    ELSE HandleResult(TRUE, Undefined, st, tt, <<>>)

Handle(h, request, roomName, sess, st, tt, outcome) ==
    CASE h.cls = "SayHandler" -> SayHandle(request, st, tt, outcome)
      [] h.cls = "StoreHandler" -> StoreHandle(request, st, tt)
      [] h.cls = "PlayHandler" -> PlayHandle(request, st, tt, outcome)
      [] h.cls = "ChangeVoiceHandler" ->
            ChangeVoiceHandle(request, roomName, sess, st, tt, outcome)
      [] OTHER -> CustomHandle(st, tt, outcome)

(***************************************************************************)
(* handlers/manager.ts: HandlerManager.                                    *)
(***************************************************************************)
RegisterFirstWins(hs, h) == MapSetFirstWins(hs, ActionName(h), h)
Register(hs, h) == MapSet(hs, ActionName(h), h)

RECURSIVE RegisterAll(_, _)
RegisterAll(hs, list) ==
    IF list = <<>> THEN hs ELSE RegisterAll(Register(hs, Head(list)), Tail(list))

GetHandler(hs, actionName) ==
    IF IsString(actionName) THEN MapGet(hs, actionName.val) ELSE Undefined

GetActionNames(hs) == MapKeys(hs)

\* `${request.action}` in a template string
ToText(v) == IF v.type = "undefined" THEN "undefined" ELSE v.val

\* The result of processAction: HandleResult plus the handlers it called.
ProcessResult(res, calledHandlers) ==
    [threw |-> res.threw, response |-> res.response, storage |-> res.storage,
     tts |-> res.tts, spoken |-> res.spoken, called |-> calledHandlers]

ProcessActionNoValidate(hs, roomName, request, sess, st, tt, outcome) ==
    LET handler == GetHandler(hs, request.action)
    IN  IF handler = Undefined
        THEN ProcessResult(HandleResult(FALSE,
                 ErrorResponse("Unknown action: " \o ToText(request.action)
                               \o ". Available actions: " \o Join(GetActionNames(hs)),
                               Undefined), st, tt, <<>>), <<>>)
        ELSE ProcessResult(Handle(handler, request, roomName, sess, st, tt, outcome),
                           <<handler>>)

ProcessActionPropagates(hs, roomName, request, sess, st, tt, outcome) ==
    LET handler == GetHandler(hs, request.action)
    IN  IF handler = Undefined
        THEN ProcessResult(HandleResult(FALSE,
                 ErrorResponse("Unknown action: " \o ToText(request.action)
                               \o ". Available actions: " \o Join(GetActionNames(hs)),
                               Undefined), st, tt, <<>>), <<>>)
        ELSE IF HasValidate(handler) /\ ~Validate(handler, request.payload)
        THEN ProcessResult(HandleResult(FALSE,
                 ErrorResponse("Invalid payload for action: " \o ToText(request.action),
                               Undefined), st, tt, <<>>), <<>>)
        ELSE ProcessResult(Handle(handler, request, roomName, sess, st, tt, outcome),
                           <<handler>>)

ProcessAction(hs, roomName, request, sess, st, tt, outcome) ==
    LET handler == GetHandler(hs, request.action)
    IN  IF handler = Undefined
        THEN ProcessResult(HandleResult(FALSE,
                 ErrorResponse("Unknown action: " \o ToText(request.action)
                               \o ". Available actions: " \o Join(GetActionNames(hs)),
                               Undefined), st, tt, <<>>), <<>>)
        ELSE IF HasValidate(handler) /\ ~Validate(handler, request.payload)
        THEN ProcessResult(HandleResult(FALSE,
                 ErrorResponse("Invalid payload for action: " \o ToText(request.action),
                               Undefined), st, tt, <<>>), <<>>)
        ELSE LET res == Handle(handler, request, roomName, sess, st, tt, outcome)
             IN  IF res.threw
                 THEN ProcessResult(HandleResult(FALSE,
                          ErrorResponse("Failed to execute action: "
                              \o (IF outcome = "error" THEN SdkErrorMessage ELSE ThrownText),
                              Undefined),
                          res.storage, res.tts, res.spoken), <<handler>>)
                 ELSE ProcessResult(res, <<handler>>)

(***************************************************************************)
(* Values the variables of a part hold while another part's                *)
(* specification runs.                                                     *)
(***************************************************************************)
SessionIds == {"s1", "s2"}
\* the ids a store request can carry
StoredIds == {"a", "b"}
NothingStored == [i \in StoredIds |-> Undefined]
NoVoice == "none"
ClerkIds == {"u1", "u2"}

AgentAtRest ==
    /\ handlers = <<>>
    /\ managerRoom = Undefined
    /\ sessions = <<>>
    /\ tts = [s \in SessionIds |-> NoVoice]
    /\ textStorage = <<>>
    /\ opLog = <<>>
    /\ pc = "new"
    /\ shutPc = "idle"
    /\ subscribed = FALSE
    /\ lastReq = Undefined
    /\ lastFrom = Undefined
    /\ lastResp = Undefined
    /\ resps = <<>>
    /\ called = <<>>
    /\ spoken = <<>>
    /\ threw = FALSE
    /\ stored = NothingStored
    /\ jobMetadata = Undefined
    /\ managerVoiceId = NoVoice

ServerAtRest ==
    /\ users = <<>>
    /\ stories = <<>>
    /\ pending = {}
    /\ http = Undefined
    /\ storeOps = <<>>
    /\ completion = [u \in ClerkIds |-> "never"]

StoryAtRest ==
    /\ sessionContexts = <<>>
    /\ sessionStories = <<>>
    /\ tool = Undefined
    /\ gen = Undefined
    /\ fullStory = Undefined
    /\ succeeded = [r \in {"r1", "r2"} |-> [context |-> FALSE, synopsis |-> FALSE]]

ClientAtRest ==
    /\ page = Undefined
    /\ conn = Undefined
    /\ onboardingPage = Undefined
    /\ recorder = Undefined
    /\ flow = Undefined

(***************************************************************************)
(* managers/session-registry.ts: SessionRegistry.                          *)
(***************************************************************************)
NewContext(session) == [type |-> "context", session |-> session]

SessionRegisterFirstWins(sess, roomName, context) ==
    MapSetFirstWins(sess, roomName, context)
SessionRegister(sess, roomName, context) == MapSet(sess, roomName, context)
SessionUnregister(sess, roomName) == MapDelete(sess, roomName)
SessionGet(sess, roomName) == MapGet(sess, roomName)
SessionHas(sess, roomName) == MapHas(sess, roomName)
SessionSize(sess) == MapSize(sess)

(***************************************************************************)
(* SpecRegistry: any sequence of HandlerManager.register and               *)
(* SessionRegistry.register / unregister calls, with the calls logged.     *)
(***************************************************************************)
MaxOps == 4
\* tell_story calls on one synopsis
MaxTold == 2
RegistryHandlers ==
    {NewHandler("SayHandler", 1), NewHandler("SayHandler", 2),
     NewHandler("StoreHandler", 1), NewHandler("CustomHandler", 1)}
RegistryRooms == {"r1", "r2"}

InitRegistry == AgentAtRest /\ ServerAtRest /\ StoryAtRest /\ ClientAtRest

registryFrame ==
    <<managerRoom, tts, textStorage, pc, shutPc, subscribed, lastReq, lastFrom,
      lastResp, resps, called, spoken, threw, stored, serverVars, storyVars,
      clientVars, jobMetadata, managerVoiceId>>

HmRegister(h) ==
    /\ Len(opLog) < MaxOps
    /\ handlers' = Register(handlers, h)
    /\ opLog' = Append(opLog, [op |-> "hm.register", key |-> ActionName(h), value |-> h])
    /\ UNCHANGED <<sessions, registryFrame>>

SrRegister(roomName, context) ==
    /\ Len(opLog) < MaxOps
    /\ sessions' = SessionRegister(sessions, roomName, context)
    /\ opLog' = Append(opLog, [op |-> "sr.register", key |-> roomName, value |-> context])
    /\ UNCHANGED <<handlers, registryFrame>>

SrUnregister(roomName) ==
    /\ Len(opLog) < MaxOps
    /\ sessions' = SessionUnregister(sessions, roomName)
    /\ opLog' = Append(opLog, [op |-> "sr.unregister", key |-> roomName, value |-> Undefined])
    /\ UNCHANGED <<handlers, registryFrame>>

NextRegistry ==
    \/ \E h \in RegistryHandlers : HmRegister(h)
    \/ \E r \in RegistryRooms, s \in SessionIds : SrRegister(r, NewContext(s))
    \/ \E r \in RegistryRooms : SrUnregister(r)

SpecRegistry == InitRegistry /\ [][NextRegistry]_vars

\* What the logged calls say a key holds: the value of the latest `put` call
\* on the key, unless a `del` call on the key came after it.
RECURSIVE Latest(_, _, _, _)
Latest(log, put, del, key) ==
    IF log = <<>> THEN Undefined
    ELSE LET e == log[Len(log)]
         IN  IF e.key = key /\ e.op = put THEN e.value
             ELSE IF e.key = key /\ e.op = del THEN Undefined
             ELSE Latest(SubSeq(log, 1, Len(log) - 1), put, del, key)

RegistryActionNames == {ActionName(h) : h \in RegistryHandlers}

\* C5: registration is last-write-wins. getHandler(name) is the handler most
\* recently registered under name; SessionRegistry.get(room) is the context
\* most recently registered for room since its last unregister (undefined if
\* none); size() is the number of distinct registered keys.
C5_LastWriteWins ==
    /\ \A n \in RegistryActionNames :
          GetHandler(handlers, Str(n)) = Latest(opLog, "hm.register", "none", n)
    /\ \A r \in RegistryRooms :
          /\ SessionGet(sessions, r) = Latest(opLog, "sr.register", "sr.unregister", r)
          /\ SessionHas(sessions, r) = (SessionGet(sessions, r) # Undefined)
    /\ SessionSize(sessions) =
          Cardinality({r \in RegistryRooms :
                          Latest(opLog, "sr.register", "sr.unregister", r) # Undefined})

\* C5 witness: a handler and a session were both overwritten, and a room was
\* registered again after an unregister.
C5_Witness ==
    /\ GetHandler(handlers, Str("say")) = NewHandler("SayHandler", 2)
    /\ \E i \in 1..Len(opLog) :
          opLog[i].op = "hm.register" /\ opLog[i].value = NewHandler("SayHandler", 1)
    /\ \E i, j \in 1..Len(opLog) :
          /\ i < j
          /\ opLog[i].op = "sr.unregister" /\ opLog[i].key = "r1"
          /\ opLog[j].op = "sr.register" /\ opLog[j].key = "r1"
    /\ SessionGet(sessions, "r1") = NewContext("s2")

(***************************************************************************)
(* managers/room-event-handler.ts: RoomEventHandler.                       *)
(***************************************************************************)
\* registerHandlers(): the handlers the constructor registers
RoomHandlersWithChangeVoice ==
    <<NewHandler("SayHandler", 1), NewHandler("StoreHandler", 1),
      NewHandler("PlayHandler", 1), NewHandler("ChangeVoiceHandler", 1)>>
RoomHandlers ==
    <<NewHandler("SayHandler", 1), NewHandler("StoreHandler", 1),
      NewHandler("PlayHandler", 1)>>

\* new HandlerManager(context.ctx, context.session): no roomName is passed
RoomManagerRoomName == Undefined

\* One publishData call of sendResponse.
Published(identity, response) ==
    [destination_identities |-> <<identity>>, topic |-> "action-response",
     data |-> response]

\* sendResponse: the publishData calls it makes. A rejected publishData is
\* caught and logged, so nothing escapes.
SendResponseToAll(identity, response) == <<Published(Undefined, response)>>
SendResponse(identity, response) ==
    IF ~Truthy(identity) THEN <<>> ELSE <<Published(identity, response)>>

TypeErrorMessage == "Cannot read properties of null (reading 'action')"

\* A data packet: its bytes either decode to JSON text that parses to
\* `value`, or JSON.parse throws.
Packet(wellFormed, value) == [type |-> "packet", wellFormed |-> wellFormed, value |-> value]

DataResult(pub, res) ==
    [published |-> pub, threw |-> res.threw, response |-> res.response,
     storage |-> res.storage, tts |-> res.tts, spoken |-> res.spoken,
     called |-> res.called]

HandleDataReceived(hs, roomName, packet, identity, sess, st, tt, outcome) ==
    LET quiet(r) == ProcessResult(HandleResult(FALSE, r, st, tt, <<>>), <<>>)
        reply(r) == DataResult(SendResponse(identity, r), quiet(r))
    IN  IF ~packet.wellFormed
        THEN reply(ErrorResponse("Invalid JSON payload", Undefined))
        ELSE IF packet.value.type = "null"
        THEN reply(ErrorResponse(TypeErrorMessage, Undefined))
        ELSE IF packet.value.type # "object" \/ ~Truthy(packet.value.action)
        THEN reply(ErrorResponse("Missing action field in request", Undefined))
        ELSE LET res == ProcessAction(hs, roomName, packet.value, sess, st, tt, outcome)
             IN  DataResult(SendResponse(identity, res.response), res)

(***************************************************************************)
(* Inputs: action requests and data packets.                               *)
(***************************************************************************)
FieldValues == {Str(""), Num5, Str("a"), Str("b")}
TextOnly == {Obj(t, Undefined, Undefined) : t \in FieldValues}
IdOnly == {Obj(Undefined, i, Undefined) : i \in FieldValues}
VoiceOnly == {Obj(Undefined, Undefined, v) : v \in FieldValues}
TextAndId ==
    {Obj(t, i, Undefined) : t \in {Str(""), Str("a"), Str("b")}, i \in {Str("a"), Str("b")}}
NoFields == {Undefined, Num5, Obj(Undefined, Undefined, Undefined)}

Request(action, payload) == [type |-> "object", action |-> action, payload |-> payload]
Requests ==
    {Request(Str("say"), p) : p \in NoFields \cup TextOnly \cup IdOnly}
    \cup {Request(Str("store"), p) : p \in NoFields \cup TextOnly \cup IdOnly \cup TextAndId}
    \cup {Request(Str("play"), p) : p \in NoFields \cup TextOnly \cup IdOnly}
    \cup {Request(Str("change_voice"), p) : p \in NoFields \cup TextOnly \cup VoiceOnly}
    \cup {Request(a, p) : a \in {Str("customAction"), Str("bogus"), Num5},
                          p \in {Undefined, Obj(Str("a"), Undefined, Undefined)}}
    \cup {Request(a, Undefined) : a \in {Undefined, Str("")}}
Packets ==
    {Packet(FALSE, Undefined), Packet(TRUE, Null), Packet(TRUE, Num5)}
    \cup {Packet(TRUE, r) : r \in Requests}
Identities == {Undefined, Str("p1"), Str("p2")}

DEFAULT_VOICE_ID == "Xb7hH8MSUJpSbSDYk0k2"

(***************************************************************************)
(* The record of a call (lastReq, lastFrom, lastResp, resps, called,       *)
(* spoken, threw) is written by the step that makes the call and dropped   *)
(* when the call's promise has settled and the caller moves on.            *)
(***************************************************************************)
callVars == <<lastReq, lastFrom, lastResp, resps, called, spoken, threw, stored>>
Idle == lastReq = Undefined

\* History of the store actions: per id the text of the last store request
\* that was answered success.
LogStore(log, request, res) ==
    LET q == IF request.type = "packet" THEN request.value ELSE request
    IN  IF /\ q.type = "object"
           /\ q.action = Str("store")
           /\ res.response.success
        THEN [log EXCEPT ![q.payload.id.val] = q.payload.text]
        ELSE log

Record(request, identity, res, pub) ==
    /\ lastReq' = request
    /\ lastFrom' = identity
    /\ lastResp' = res.response
    /\ resps' = pub
    /\ called' = res.called
    /\ spoken' = res.spoken
    /\ threw' = res.threw
    /\ stored' = LogStore(stored, request, res)

CallSettled ==
    /\ ~Idle
    /\ lastReq' = Undefined
    /\ lastFrom' = Undefined
    /\ lastResp' = Undefined
    /\ resps' = <<>>
    /\ called' = <<>>
    /\ spoken' = <<>>
    /\ threw' = FALSE
    /\ UNCHANGED <<handlers, managerRoom, sessions, tts, textStorage, opLog, pc,
                   shutPc, subscribed, stored, serverVars, storyVars, clientVars,
                   jobMetadata, managerVoiceId>>

(***************************************************************************)
(* SpecManager: a HandlerManager with handlers registered, called          *)
(* directly (processAction) and through a RoomEventHandler.                *)
(***************************************************************************)
ManagerSetups ==
    {RoomHandlers,
     RoomHandlersWithChangeVoice \o <<NewHandler("CustomHandler", 1)>>}
ManagerRooms == {"r1"}

InitManager ==
    /\ handlers = <<>>
    /\ managerRoom \in {Str("r1"), Undefined}
    /\ sessions = <<>>
    /\ tts = [s \in SessionIds |-> DEFAULT_VOICE_ID]
    /\ textStorage = <<>>
    /\ opLog = <<>>
    /\ pc = "new"
    /\ shutPc = "idle"
    /\ subscribed = FALSE
    /\ lastReq = Undefined
    /\ lastFrom = Undefined
    /\ lastResp = Undefined
    /\ resps = <<>>
    /\ called = <<>>
    /\ spoken = <<>>
    /\ threw = FALSE
    /\ stored = NothingStored
    /\ jobMetadata = Undefined
    /\ managerVoiceId = NoVoice
    /\ ServerAtRest
    /\ StoryAtRest
    /\ ClientAtRest

MgrSetup(list) ==
    /\ Idle
    /\ handlers = <<>>
    /\ handlers' = RegisterAll(handlers, list)
    /\ UNCHANGED <<managerRoom, sessions, tts, textStorage, opLog, pc, shutPc,
                   subscribed, callVars, serverVars, storyVars, clientVars,
                   jobMetadata, managerVoiceId>>

MgrSessionRegister(roomName) ==
    /\ Idle
    /\ sessions' = SessionRegister(sessions, roomName, NewContext("s1"))
    /\ UNCHANGED <<handlers, managerRoom, tts, textStorage, opLog, pc, shutPc,
                   subscribed, callVars, serverVars, storyVars, clientVars,
                   jobMetadata, managerVoiceId>>

MgrSessionUnregister(roomName) ==
    /\ Idle
    /\ sessions' = SessionUnregister(sessions, roomName)
    /\ UNCHANGED <<handlers, managerRoom, tts, textStorage, opLog, pc, shutPc,
                   subscribed, callVars, serverVars, storyVars, clientVars,
                   jobMetadata, managerVoiceId>>

MgrProcessAction(request, outcome) ==
    /\ Idle
    /\ handlers # <<>>
    /\ \E res \in {ProcessAction(handlers, managerRoom, request, sessions,
                                 textStorage, tts, outcome)} :
          /\ Record(request, Undefined, res, <<>>)
          /\ textStorage' = res.storage
          /\ tts' = res.tts
    /\ UNCHANGED <<handlers, managerRoom, sessions, opLog, pc, shutPc, subscribed,
                   serverVars, storyVars, clientVars,
                   jobMetadata, managerVoiceId>>

MgrDataReceived(packet, identity, outcome) ==
    /\ Idle
    /\ handlers # <<>>
    /\ \E res \in {HandleDataReceived(handlers, managerRoom, packet, identity,
                                      sessions, textStorage, tts, outcome)} :
          /\ Record(packet, identity, res, res.published)
          /\ textStorage' = res.storage
          /\ tts' = res.tts
    /\ UNCHANGED <<handlers, managerRoom, sessions, opLog, pc, shutPc, subscribed,
                   serverVars, storyVars, clientVars,
                   jobMetadata, managerVoiceId>>

NextManager ==
    \/ \E list \in ManagerSetups : MgrSetup(list)
    \/ \E r \in ManagerRooms : MgrSessionRegister(r)
    \/ \E r \in ManagerRooms : MgrSessionUnregister(r)
    \/ \E q \in Requests, o \in Outcomes : MgrProcessAction(q, o)
    \/ \E p \in Packets, i \in Identities, o \in Outcomes : MgrDataReceived(p, i, o)
    \/ CallSettled

SpecManager == InitManager /\ [][NextManager]_vars

\* The action request processAction was called with in the recorded call, and
\* whether the recorded call reached processAction at all.
CallRequest == IF lastReq.type = "packet" THEN lastReq.value ELSE lastReq
ReachedProcessAction ==
    \/ lastReq.type = "object"
    \/ /\ lastReq.type = "packet"
       /\ lastReq.wellFormed
       /\ lastReq.value.type = "object"
       /\ Truthy(lastReq.value.action)

WellShaped(r) ==
    \/ r.success = TRUE /\ r.error = Undefined
    \/ r.success = FALSE /\ IsString(r.error) /\ Len(r.error.val) > 0

\* C3: every action response has one of two shapes: success = true with no
\* error field, or success = false with a non-empty error string. This covers
\* the responses processAction returns (its own and the handlers') and the
\* responses the room event handler publishes.
C3_ResponseShape ==
    /\ ~Idle => lastResp # Undefined /\ WellShaped(lastResp)
    /\ \A i \in 1..Len(resps) : WellShaped(resps[i].data)

\* C3 witness: a handler's own failure response (session.say rejected inside
\* PlayHandler) was published by the room event handler.
C3_Witness ==
    /\ lastReq.type = "packet"
    /\ called = <<NewHandler("PlayHandler", 1)>>
    /\ Len(resps) = 1
    /\ resps[1].data.success = FALSE
    /\ resps[1].data.error = Str(SdkErrorMessage)

\* the handler registered under the request's action, and whether
\* processAction must reject the request
Registered == GetHandler(handlers, CallRequest.action)
Rejected ==
    \/ Registered = Undefined
    \/ HasValidate(Registered) /\ ~Validate(Registered, CallRequest.payload)

C4_Inv ==
    /\ threw = FALSE
    /\ ~Idle => lastResp # Undefined
    /\ (~Idle /\ ReachedProcessAction) =>
          /\ Rejected => lastResp.success = FALSE /\ called = <<>> /\ spoken = <<>>
          /\ ~Rejected => called = <<Registered>>
    /\ (~Idle /\ ~ReachedProcessAction) => called = <<>>

C4_Step ==
    (Idle /\ ~Idle' /\ ReachedProcessAction' /\ Rejected') =>
        /\ textStorage' = textStorage
        /\ sessions' = sessions
        /\ tts' = tts

\* C4: processAction calls handle on exactly the handler registered under
\* request.action and only after its validate accepted the payload; for an
\* unknown action or a rejected payload it returns success = false, calls no
\* handler and leaves text storage, session registry and TTS unchanged with
\* session.say uncalled; an exception thrown by handle comes back as
\* success = false and is never propagated.
C4_Dispatch == []C4_Inv /\ [][C4_Step]_vars

\* C4 witness: the registered custom handler's handle() threw and
\* processAction returned the failure as a response.
C4_Witness ==
    /\ ~Idle
    /\ called = <<NewHandler("CustomHandler", 1)>>
    /\ threw = FALSE
    /\ lastResp.success = FALSE
    /\ lastResp.error = Str("Failed to execute action: " \o SdkErrorMessage)

\* C4 witness of the rejection case is part of the same run: a store request
\* whose payload fails validation while texts are stored.
C4_RejectSeen ==
    /\ ~Idle
    /\ ReachedProcessAction
    /\ Registered = NewHandler("StoreHandler", 1)
    /\ Rejected
    /\ textStorage # <<>>

(***************************************************************************)
(* managers/agent-session-manager.ts: AgentSessionManager, one per room    *)
(* job.  initialize() runs in two stretches separated by its awaits; the   *)
(* shutdown callback runs in two stretches separated by `await logUsage`.  *)
(***************************************************************************)
\* ctx.job.metadata: absent, the empty string, text that is not JSON, or the
\* JSON text of null, of a number or of an object
NoMetadata == [kind |-> "absent", voice_id |-> Undefined]
JobMetadata ==
    {NoMetadata, [kind |-> "empty", voice_id |-> Undefined],
     [kind |-> "garbage", voice_id |-> Undefined],
     [kind |-> "null", voice_id |-> Undefined],
     [kind |-> "number", voice_id |-> Undefined]}
    \cup {[kind |-> "object", voice_id |-> v] : v \in {Undefined, Str(""), Num5, Str("v1")}}

\* the try block: JSON.parse throws on text that is not JSON, and reading
\* voice_id of null throws; a number has no voice_id
TryVoiceId(metadata) ==
    IF metadata.kind \in {"absent", "empty"} THEN [threw |-> FALSE, found |-> Undefined]
    ELSE IF metadata.kind \in {"garbage", "null"} THEN [threw |-> TRUE, found |-> Undefined]
    ELSE IF Truthy(metadata.voice_id) /\ IsString(metadata.voice_id)
    THEN [threw |-> FALSE, found |-> metadata.voice_id]
    ELSE [threw |-> FALSE, found |-> Undefined]

ExtractVoiceIdAnyString(metadata) ==
    IF metadata.kind = "object" /\ IsString(metadata.voice_id)
    THEN metadata.voice_id.val
    ELSE DEFAULT_VOICE_ID

ExtractVoiceIdFromMetadata(metadata) ==
    LET tried == TryVoiceId(metadata)
    IN  IF ~tried.threw /\ tried.found # Undefined
        THEN tried.found.val
        ELSE DEFAULT_VOICE_ID

AgentRoom == "r1"
AgentSession == "s1"

InitAgent == AgentAtRest /\ ServerAtRest /\ StoryAtRest /\ ClientAtRest

\* constructor, initializeRoom, setupMetricsCollection, setupShutdownCallbacks
\* and the call of session.start, up to its await
AgentInitializeRoom(metadata, connected) ==
    /\ pc = "new"
    /\ jobMetadata' = metadata
    /\ managerVoiceId' = ExtractVoiceIdFromMetadata(metadata)
    /\ IF connected
       THEN /\ pc' = "starting"
            /\ tts' = [tts EXCEPT ![AgentSession] = ExtractVoiceIdFromMetadata(metadata)]
       ELSE /\ pc' = "connectFailed"
            /\ tts' = tts
    /\ UNCHANGED <<handlers, managerRoom, sessions, textStorage, opLog, shutPc,
                   subscribed, callVars, serverVars, storyVars, clientVars>>

\* session.start settled: registerSession, subscribeToEvents (which builds the
\* RoomEventHandler with its HandlerManager) and the opening session.say
AgentSessionStarted(started) ==
    /\ pc = "starting"
    /\ IF started
       THEN /\ pc' = "active"
            /\ sessions' = SessionRegister(sessions, AgentRoom, NewContext(AgentSession))
            /\ handlers' = RegisterAll(<<>>, RoomHandlers)
            /\ managerRoom' = RoomManagerRoomName
            /\ subscribed' = TRUE
       ELSE /\ pc' = "startFailed"
            /\ UNCHANGED <<sessions, handlers, managerRoom, subscribed>>
    /\ UNCHANGED <<tts, textStorage, opLog, shutPc, callVars, serverVars, storyVars, clientVars,
                   jobMetadata, managerVoiceId>>

\* the shutdown callback up to `await this.logUsage()`
AgentShutdownBegin ==
    /\ pc \in {"starting", "active", "startFailed"}
    /\ shutPc = "idle"
    /\ shutPc' = "logging"
    /\ subscribed' = FALSE
    /\ UNCHANGED <<handlers, managerRoom, sessions, tts, textStorage, opLog, pc,
                   callVars, serverVars, storyVars, clientVars,
                   jobMetadata, managerVoiceId>>

\* the rest of the shutdown callback
AgentShutdownEnd ==
    /\ shutPc = "logging"
    /\ shutPc' = "done"
    /\ sessions' = SessionUnregister(sessions, AgentRoom)
    /\ sessionContexts' = MapDelete(sessionContexts, AgentRoom)
    /\ sessionStories' = MapDelete(sessionStories, AgentRoom)
    /\ succeeded' = [succeeded EXCEPT ![AgentRoom] = [context |-> FALSE, synopsis |-> FALSE]]
    /\ UNCHANGED <<handlers, managerRoom, tts, textStorage, opLog, pc, subscribed,
                   callVars, serverVars, tool, gen, fullStory, clientVars,
                   jobMetadata, managerVoiceId>>

\* the room emits dataReceived while the listener is attached
AgentDataReceived(packet, identity, outcome) ==
    /\ subscribed
    /\ Idle
    /\ \E res \in {HandleDataReceived(handlers, managerRoom, packet, identity,
                                      sessions, textStorage, tts, outcome)} :
          /\ Record(packet, identity, res, res.published)
          /\ textStorage' = res.storage
          /\ tts' = res.tts
    /\ UNCHANGED <<handlers, managerRoom, sessions, opLog, pc, shutPc, subscribed,
                   serverVars, storyVars, clientVars,
                   jobMetadata, managerVoiceId>>

NextAgent ==
    \/ \E m \in JobMetadata, c \in BOOLEAN : AgentInitializeRoom(m, c)
    \/ \E b \in BOOLEAN : AgentSessionStarted(b)
    \/ AgentShutdownBegin
    \/ AgentShutdownEnd
    \/ \E p \in Packets, i \in Identities, o \in Outcomes : AgentDataReceived(p, i, o)
    \/ CallSettled

SpecAgent == InitAgent /\ [][NextAgent]_vars

SpecActions == {Str("say"), Str("store"), Str("play"), Str("change_voice")}

\* the answer processAction gives for an action with no registered handler
UnknownActionResponse(hs, action) ==
    ErrorResponse("Unknown action: " \o ToText(action) \o ". Available actions: "
                  \o Join(GetActionNames(hs)), Undefined)

\* C1: in a room whose agent session has been initialized, a data message
\* whose action is say, store, play or change_voice is routed to a registered
\* handler and is never answered with 'Unknown action'.
C1_AllFourRouted ==
    (/\ pc = "active"
     /\ ~Idle
     /\ ReachedProcessAction
     /\ CallRequest.action \in SpecActions)
    => /\ Registered # Undefined
       /\ lastResp # UnknownActionResponse(handlers, CallRequest.action)

\* C2: for every data packet from a participant with an identity the agent
\* publishes exactly one response, on topic 'action-response', addressed to
\* that participant; for a sender without identity it publishes none; and
\* handleDataReceived never throws.
C2_OneResponse ==
    (~Idle /\ lastReq.type = "packet") =>
        /\ threw = FALSE
        /\ IF Truthy(lastFrom)
           THEN /\ Len(resps) = 1
                /\ resps[1].topic = "action-response"
                /\ resps[1].destination_identities = <<lastFrom>>
                /\ resps[1].data = lastResp
           ELSE resps = <<>>

\* C2 witness: a handler that failed (session.say rejected in SayHandler) and
\* the one response published to the sender.
C2_Witness ==
    /\ lastReq.type = "packet"
    /\ lastFrom = Str("p2")
    /\ called = <<NewHandler("SayHandler", 1)>>
    /\ Len(resps) = 1
    /\ resps[1].data.success = FALSE
    /\ resps[1].destination_identities = <<Str("p2")>>

\* the other cases of C2 are reached as well: a packet that is not JSON from
\* a sender with identity, and a packet from a sender without identity
C2_InvalidJsonSeen ==
    /\ lastReq.type = "packet" /\ ~lastReq.wellFormed /\ Len(resps) = 1
C2_NoIdentitySeen ==
    /\ lastReq.type = "packet" /\ lastFrom = Undefined /\ called # <<>>

(***************************************************************************)
(* server/src/db/models: the User and Story collections.  A collection is  *)
(* the list of its documents in insertion order.                           *)
(***************************************************************************)
\* a User document as the schema creates it: the defaults, then the fields set
NewUserDoc(clerkId) ==
    [clerkId |-> clerkId, parentName |-> Undefined, childName |-> Undefined,
     chosenVoiceId |-> Null, anamVoiceId |-> Null, anamPersonaId |-> Null,
     onboardingComplete |-> FALSE]

\* $set of the given fields on a document
ApplyUpdate(doc, changes) ==
    [f \in DOMAIN doc |-> IF f \in DOMAIN changes THEN changes[f] ELSE doc[f]]

\* index of the first document with this clerkId, 0 when there is none
FindUserIndex(us, clerkId) ==
    IF \E i \in 1..Len(us) : us[i].clerkId = clerkId
    THEN CHOOSE i \in 1..Len(us) :
            /\ us[i].clerkId = clerkId
            /\ \A j \in 1..(i - 1) : us[j].clerkId # clerkId
    ELSE 0

\* the unique index on clerkId: an insert of a second document is rejected
NoUniqueIndex(us, clerkId) == FALSE
DuplicateKey(us, clerkId) == FindUserIndex(us, clerkId) # 0

\* User.updateOne({clerkId}, changes).  `tick` tells whether the clock has
\* moved since the document was last written: the schema's timestamps make
\* every update set updatedAt, so only an update that changes no field within
\* the same millisecond reports modifiedCount = 0.
UpdateOne(us, clerkId, changes, tick) ==
    LET i == FindUserIndex(us, clerkId)
    IN  IF i = 0
        THEN [users |-> us, matchedCount |-> 0, modifiedCount |-> 0]
        ELSE [users |-> [us EXCEPT ![i] = ApplyUpdate(us[i], changes)],
              matchedCount |-> 1,
              modifiedCount |-> IF ApplyUpdate(us[i], changes) # us[i] \/ tick
                                THEN 1 ELSE 0]

\* User.findOneAndUpdate({clerkId}, {clerkId, ...data}, {upsert, new}) run as
\* one atomic operation
SaveUser(us, clerkId, data) ==
    LET i == FindUserIndex(us, clerkId)
    IN  IF i = 0
        THEN Append(us, ApplyUpdate(NewUserDoc(clerkId), data))
        ELSE [us EXCEPT ![i] = ApplyUpdate(us[i], data)]

\* toOnboardingData(User.findOne({clerkId})), or null
GetUser(us, clerkId) ==
    IF FindUserIndex(us, clerkId) = 0 THEN Null ELSE us[FindUserIndex(us, clerkId)]

UpdateUserVoice(us, clerkId, voiceId, tick) ==
    LET r == UpdateOne(us, clerkId, [chosenVoiceId |-> voiceId], tick)
    IN  [users |-> r.users, result |-> r.modifiedCount > 0]

UpdateUserVoiceClone(us, clerkId, anamVoiceId, anamPersonaId, tick) ==
    LET changes == IF Truthy(anamPersonaId)
                   THEN [anamVoiceId |-> anamVoiceId, anamPersonaId |-> anamPersonaId]
                   ELSE [anamVoiceId |-> anamVoiceId]
        r == UpdateOne(us, clerkId, changes, tick)
    IN  [users |-> r.users, result |-> r.modifiedCount > 0]

CompleteOnboardingForgets(us, clerkId, tick) ==
    [users |-> us, result |-> FindUserIndex(us, clerkId) # 0]
CompleteOnboarding(us, clerkId, tick) ==
    LET r == UpdateOne(us, clerkId, [onboardingComplete |-> TRUE], tick)
    IN  [users |-> r.users, result |-> r.modifiedCount > 0]

StoryIdTaken(ss, storyId) == \E i \in 1..Len(ss) : ss[i].storyId = storyId

\* Story.create: the unique index on storyId rejects a second document
SaveStoryOverwrites(ss, story) ==
    IF StoryIdTaken(ss, story.storyId)
    THEN [ok |-> TRUE,
          stories |-> [i \in 1..Len(ss) |->
                          IF ss[i].storyId = story.storyId THEN story ELSE ss[i]]]
    ELSE [ok |-> TRUE, stories |-> Append(ss, story)]
SaveStory(ss, story) ==
    IF StoryIdTaken(ss, story.storyId)
    THEN [ok |-> FALSE, stories |-> ss]
    ELSE [ok |-> TRUE, stories |-> Append(ss, story)]

GetStory(ss, storyId) ==
    IF StoryIdTaken(ss, storyId)
    THEN ss[CHOOSE i \in 1..Len(ss) : ss[i].storyId = storyId]
    ELSE Null

\* the user's stories, newest first (documents are created in list order)
RECURSIVE GetStoriesForUser(_, _)
GetStoriesForUser(ss, clerkUserId) ==
    IF ss = <<>> THEN <<>>
    ELSE LET last == ss[Len(ss)]
             rest == GetStoriesForUser(SubSeq(ss, 1, Len(ss) - 1), clerkUserId)
         IN  IF last.clerkUserId = clerkUserId THEN <<last>> \o rest ELSE rest

\* a lookup that forgets whose story it is asked for
GetLatestStoryOfAnyone(ss, clerkUserId) ==
    IF ss = <<>> THEN Null ELSE ss[Len(ss)]
\* a lookup that sorts the wrong way
GetOldestStoryForUser(ss, clerkUserId) ==
    IF GetStoriesForUser(ss, clerkUserId) = <<>>
    THEN Null
    ELSE GetStoriesForUser(ss, clerkUserId)[Len(GetStoriesForUser(ss, clerkUserId))]
GetLatestStoryForUser(ss, clerkUserId) ==
    IF GetStoriesForUser(ss, clerkUserId) = <<>>
    THEN Null
    ELSE Head(GetStoriesForUser(ss, clerkUserId))

(***************************************************************************)
(* SpecStore: the Store's user operations called concurrently.  An upsert  *)
(* that matched no document inserts in a later step; in between, other     *)
(* operations run.                                                         *)
(***************************************************************************)
TEMP_VOICE_ID == "YEPxsTk32dk1sVTotPBJ"
StoreVoices == {Str(TEMP_VOICE_ID), Str("v1")}
StoreData ==
    {[anamVoiceId |-> v, onboardingComplete |-> FALSE] : v \in StoreVoices}

InitStore == AgentAtRest /\ ServerAtRest /\ StoryAtRest /\ ClientAtRest

storeFrame == <<agentVars, storyVars, clientVars, stories, http, completion>>

\* saveUser: the query of findOneAndUpdate; a match is updated at once
StoreSaveUserQuery(clerkId, data) ==
    /\ IF FindUserIndex(users, clerkId) # 0
       THEN /\ users' = SaveUser(users, clerkId, data)
            /\ pending' = pending
       ELSE /\ users' = users
            /\ pending' = pending \cup {[clerkId |-> clerkId, data |-> data]}
    /\ storeOps' = <<"saveUser">>
    /\ UNCHANGED storeFrame

\* saveUser: the insert of an upsert that matched nothing.  When another
\* insert got there first the unique index rejects this one, and the server
\* either runs the operation again as an update or reports the duplicate key.
StoreSaveUserInsert(p, retried) ==
    /\ p \in pending
    /\ pending' = pending \ {p}
    /\ users' = IF DuplicateKey(users, p.clerkId)
                THEN IF retried THEN SaveUser(users, p.clerkId, p.data) ELSE users
                ELSE Append(users, ApplyUpdate(NewUserDoc(p.clerkId), p.data))
    /\ storeOps' = <<"saveUser">>
    /\ UNCHANGED storeFrame

StoreUpdateUserVoice(clerkId, voiceId, tick) ==
    /\ users' = UpdateUserVoice(users, clerkId, voiceId, tick).users
    /\ storeOps' = <<"updateUserVoice">>
    /\ UNCHANGED <<pending, storeFrame>>

StoreUpdateUserVoiceClone(clerkId, anamVoiceId, anamPersonaId, tick) ==
    /\ users' = UpdateUserVoiceClone(users, clerkId, anamVoiceId, anamPersonaId, tick).users
    /\ storeOps' = <<"updateUserVoiceClone">>
    /\ UNCHANGED <<pending, storeFrame>>

StoreCompleteOnboarding(clerkId, tick) ==
    /\ users' = CompleteOnboarding(users, clerkId, tick).users
    /\ storeOps' = <<"completeOnboarding">>
    /\ UNCHANGED <<pending, storeFrame>>

NextStore ==
    \/ \E u \in ClerkIds, d \in StoreData : StoreSaveUserQuery(u, d)
    \/ \E p \in pending, r \in BOOLEAN : StoreSaveUserInsert(p, r)
    \/ \E u \in ClerkIds, t \in BOOLEAN : StoreUpdateUserVoice(u, Str("v1"), t)
    \/ \E u \in ClerkIds, v \in StoreVoices, a \in {Undefined, Str("p1")}, t \in BOOLEAN :
          StoreUpdateUserVoiceClone(u, v, a, t)
    \/ \E u \in ClerkIds, t \in BOOLEAN : StoreCompleteOnboarding(u, t)

SpecStore == InitStore /\ [][NextStore]_vars

UsersWith(clerkId) == {i \in 1..Len(users) : users[i].clerkId = clerkId}

C6_Inv == \A u \in ClerkIds : Cardinality(UsersWith(u)) <= 1

C6_Step ==
    /\ Len(users') >= Len(users)
    /\ Len(users') > Len(users) => storeOps' = <<"saveUser">>
    /\ storeOps' # <<"saveUser">> =>
          \A u \in ClerkIds : (UsersWith(u) = {}) => (UsersWith(u)' = {})

\* C6: one user per auth identity. After any sequence of saveUser,
\* updateUserVoice, updateUserVoiceClone and completeOnboarding calls, run
\* concurrently, the store holds at most one User record per clerkId; only
\* saveUser creates a record, the three update operations never do.
C6_OneUserPerIdentity == []C6_Inv /\ [][C6_Step]_vars

\* C6 witness: two upserts for one clerkId both matched nothing, the first
\* has inserted, and the second is about to insert while the record exists.
C6_Witness ==
    /\ \E p \in pending : p.clerkId = "u1"
    /\ Cardinality(UsersWith("u1")) = 1
    /\ Len(users) = 2


(***************************************************************************)
(* server/src: the Express application.  A request is served in one step;  *)
(* the exchange (request and response) stays in `http`, and the Store      *)
(* methods called for it in `storeOps`, until the next request.            *)
(***************************************************************************)
\* String.prototype.trim, on the characters of the string
RECURSIVE TrimStart(_)
TrimStart(chars) ==
    IF chars # <<>> /\ Head(chars) = " " THEN TrimStart(Tail(chars)) ELSE chars
RECURSIVE TrimEnd(_)
TrimEnd(chars) ==
    IF chars # <<>> /\ chars[Len(chars)] = " "
    THEN TrimEnd(SubSeq(chars, 1, Len(chars) - 1))
    ELSE chars
Trim(chars) == TrimEnd(TrimStart(chars))

\* req.body: every field a route reads; a field the client did not send is
\* undefined
Body(parentName, childName, anamVoiceId, anamPersonaId, mode, storyText, voiceId) ==
    [parentName |-> parentName, childName |-> childName, anamVoiceId |-> anamVoiceId,
     anamPersonaId |-> anamPersonaId, mode |-> mode, storyText |-> storyText,
     voiceId |-> voiceId]
EmptyBody ==
    Body(Undefined, Undefined, Undefined, Undefined, Undefined, Undefined, Undefined)

\* a request: method, path segments, the Clerk user id (null when the request
\* is not authenticated), the JSON body and whether an audio file is attached
Req(method, path, userId, body, file) ==
    [type |-> "request", method |-> method, path |-> path, userId |-> userId,
     body |-> body, file |-> file]

Res(status, json) == [status |-> status, json |-> json]
ErrorJson(message) == [error |-> message]
Out(us, ss, res, ops) == [users |-> us, stories |-> ss, res |-> res, ops |-> ops]

\* middleware/auth.ts
GetUserId(req) == req.userId
IsAuthenticatedAlwaysNext(req) == TRUE
IsAuthenticated(req) == Truthy(req.userId)

\* app.use(prefix, ...): the mount matches a path that starts with the prefix
Mounted(prefix, path) ==
    /\ Len(path) >= Len(prefix)
    /\ SubSeq(path, 1, Len(prefix)) = prefix
Below(prefix, path) == SubSeq(path, Len(prefix) + 1, Len(path))

OnboardingMount == <<"api", "onboarding">>
VoiceMount == <<"api", "onboarding", "voice">>
StoryMount == <<"api", "story">>

\* routes/onboarding.ts: the route of the router a request matches
OnboardingRoute(method, sub) ==
    CASE method = "GET" /\ sub = <<"status">> -> "onboarding.status"
      [] method = "POST" /\ sub = <<>> -> "onboarding.start"
      [] method = "POST" /\ sub = <<"voice">> -> "onboarding.voice"
      [] method = "POST" /\ sub = <<"complete">> -> "onboarding.complete"
      [] method = "GET" /\ sub = <<"current">> -> "onboarding.current"
      [] OTHER -> "next"

\* routes/voice.ts
VoiceRoute(method, sub) ==
    CASE method = "POST" /\ sub = <<"create">> -> "voice.create"
      [] method = "GET" /\ sub = <<"status">> -> "voice.status"
      [] OTHER -> "next"

\* routes/story.ts
StoryRoute(method, sub) ==
    CASE method = "POST" /\ sub = <<"start">> -> "story.start"
      [] method = "POST" /\ sub = <<"audio-chunks">> -> "story.audioChunks"
      [] method = "GET" /\ sub = <<"history">> -> "story.history"
      [] method = "GET" /\ Len(sub) = 1 -> "story.get"
      [] OTHER -> "next"

\* index.ts: the handler that answers a request, going through the public
\* routes, the three protected mounts in order, and the 404 handler
Dispatch(req) ==
    LET viaVoice ==
            IF ~Mounted(VoiceMount, req.path) THEN "notFound"
            ELSE IF ~IsAuthenticated(req) THEN "unauthorized"
            ELSE IF VoiceRoute(req.method, Below(VoiceMount, req.path)) # "next"
            THEN VoiceRoute(req.method, Below(VoiceMount, req.path))
            ELSE "notFound"
    IN  IF req.method = "GET" /\ req.path = <<"health">> THEN "health"
        ELSE IF req.method = "GET" /\ req.path = <<"api", "hello">> THEN "hello"
        ELSE IF Mounted(OnboardingMount, req.path)
        THEN IF ~IsAuthenticated(req) THEN "unauthorized"
             ELSE IF OnboardingRoute(req.method, Below(OnboardingMount, req.path)) # "next"
             THEN OnboardingRoute(req.method, Below(OnboardingMount, req.path))
             ELSE viaVoice
        ELSE IF Mounted(StoryMount, req.path)
        THEN IF ~IsAuthenticated(req) THEN "unauthorized"
             ELSE IF StoryRoute(req.method, Below(StoryMount, req.path)) # "next"
             THEN StoryRoute(req.method, Below(StoryMount, req.path))
             ELSE "notFound"
        ELSE "notFound"

Unauthorized(us, ss) == Out(us, ss, Res(401, ErrorJson("Unauthorized")), <<>>)

\* GET /api/onboarding/status
OnboardingStatus(us, ss, req, dbUp) ==
    LET clerkUserId == GetUserId(req)
    IN  IF ~Truthy(clerkUserId) THEN Unauthorized(us, ss)
        ELSE IF ~dbUp
        THEN Out(us, ss, Res(500, ErrorJson("Failed to check onboarding status")),
                 <<"getUser">>)
        ELSE LET user == GetUser(us, clerkUserId.val)
             IN  Out(us, ss,
                     Res(200, [exists |-> user # Null,
                               onboardingComplete |->
                                   IF user = Null THEN FALSE ELSE user.onboardingComplete,
                               hasVoiceClone |->
                                   IF user = Null THEN FALSE ELSE Truthy(user.anamVoiceId)]),
                     <<"getUser">>)

\* POST /api/onboarding: the required-field check
MissingNamesNever(body) == FALSE
MissingNames(body) == ~Truthy(body.parentName) \/ ~Truthy(body.childName)

\* POST /api/onboarding
OnboardingStart(us, ss, req, dbUp) ==
    LET parentName == req.body.parentName
        childName == req.body.childName
        clerkUserId == GetUserId(req)
        failed == Res(500, ErrorJson("Failed to save onboarding data"))
    IN  IF ~Truthy(clerkUserId) THEN Unauthorized(us, ss)
        ELSE IF MissingNames(req.body)
        THEN Out(us, ss, Res(400, ErrorJson("Missing required fields")), <<>>)
        ELSE IF parentName.type # "text" \/ childName.type # "text"
        THEN Out(us, ss, failed, <<>>)
        ELSE IF ~dbUp THEN Out(us, ss, failed, <<"saveUser">>)
        ELSE LET data == [parentName |-> Text(Trim(parentName.val)),
                          childName |-> Text(Trim(childName.val)),
                          anamVoiceId |-> Str(TEMP_VOICE_ID),
                          onboardingComplete |-> FALSE]
                 us2 == SaveUser(us, clerkUserId.val, data)
                 userData == GetUser(us2, clerkUserId.val)
             IN  Out(us2, ss,
                     Res(201, [success |-> TRUE, userId |-> userData.clerkId,
                               parentName |-> userData.parentName,
                               childName |-> userData.childName]),
                     <<"saveUser">>)

\* POST /api/onboarding/voice
OnboardingVoice(us, ss, req, dbUp, tick) ==
    LET anamVoiceId == req.body.anamVoiceId
        anamPersonaId == req.body.anamPersonaId
        clerkUserId == GetUserId(req)
    IN  IF ~Truthy(clerkUserId) THEN Unauthorized(us, ss)
        ELSE IF ~Truthy(anamVoiceId)
        THEN Out(us, ss, Res(400, ErrorJson("Missing required field: anamVoiceId")), <<>>)
        ELSE IF ~dbUp
        THEN Out(us, ss, Res(500, ErrorJson("Failed to save voice clone")),
                 <<"updateUserVoiceClone">>)
        ELSE LET r == UpdateUserVoiceClone(us, clerkUserId.val, anamVoiceId,
                                           anamPersonaId, tick)
             IN  IF ~r.result
                 THEN Out(r.users, ss, Res(404, ErrorJson("User not found")),
                          <<"updateUserVoiceClone">>)
                 ELSE Out(r.users, ss,
                          Res(200, [success |-> TRUE, anamVoiceId |-> anamVoiceId,
                                    anamPersonaId |-> anamPersonaId]),
                          <<"updateUserVoiceClone">>)

\* POST /api/onboarding/complete
OnboardingComplete(us, ss, req, dbUp, tick) ==
    LET clerkUserId == GetUserId(req)
    IN  IF ~Truthy(clerkUserId) THEN Unauthorized(us, ss)
        ELSE IF ~dbUp
        THEN Out(us, ss, Res(500, ErrorJson("Failed to complete onboarding")),
                 <<"completeOnboarding">>)
        ELSE LET r == CompleteOnboarding(us, clerkUserId.val, tick)
                 user == GetUser(r.users, clerkUserId.val)
             IN  IF ~r.result
                 THEN Out(r.users, ss, Res(404, ErrorJson("User not found")),
                          <<"completeOnboarding">>)
                 ELSE Out(r.users, ss,
                          Res(200, [success |-> TRUE, parentName |-> user.parentName,
                                    childName |-> user.childName,
                                    hasVoiceClone |-> Truthy(user.anamVoiceId)]),
                          <<"completeOnboarding", "getUser">>)

\* GET /api/onboarding/current
OnboardingCurrent(us, ss, req, dbUp) ==
    LET clerkUserId == GetUserId(req)
    IN  IF ~Truthy(clerkUserId) THEN Unauthorized(us, ss)
        ELSE IF ~dbUp
        THEN Out(us, ss, Res(500, ErrorJson("Failed to retrieve user data")), <<"getUser">>)
        ELSE LET user == GetUser(us, clerkUserId.val)
             IN  IF user = Null
                 THEN Out(us, ss,
                          Res(404, ErrorJson("No user found. Please complete onboarding first.")),
                          <<"getUser">>)
                 ELSE Out(us, ss,
                          Res(200, [userId |-> user.clerkId, parentName |-> user.parentName,
                                    childName |-> user.childName,
                                    anamVoiceId |-> user.anamVoiceId,
                                    anamPersonaId |-> user.anamPersonaId,
                                    onboardingComplete |-> user.onboardingComplete]),
                          <<"getUser">>)

\* the voice id the ElevenLabs API returns for a created clone
ClonedVoiceId == Str("v1")

\* POST /api/onboarding/voice/create.  apiKey: ELEVENLABS_API_KEY is set;
\* fetched: the ElevenLabs call answered ok.
VoiceCreate(us, ss, req, apiKey, fetched, dbUp, tick) ==
    LET clerkUserId == GetUserId(req)
        failed == Res(500, ErrorJson("Failed to create voice clone"))
    IN  IF ~Truthy(clerkUserId) THEN Unauthorized(us, ss)
        ELSE IF ~req.file
        THEN Out(us, ss, Res(400, ErrorJson("No audio file provided")), <<>>)
        ELSE IF ~apiKey
        THEN Out(us, ss, Res(200, [success |-> FALSE, skipped |-> TRUE]), <<>>)
        ELSE IF ~dbUp THEN Out(us, ss, failed, <<"getUser">>)
        ELSE IF ~fetched THEN Out(us, ss, failed, <<"getUser">>)
        ELSE LET r == UpdateUserVoiceClone(us, clerkUserId.val, ClonedVoiceId,
                                           Undefined, tick)
             IN  Out(r.users, ss,
                     Res(200, [success |-> TRUE, voiceId |-> ClonedVoiceId]),
                     <<"getUser", "updateUserVoiceClone">>)

\* GET /api/onboarding/voice/status
VoiceStatus(us, ss, req, dbUp) ==
    LET clerkUserId == GetUserId(req)
    IN  IF ~Truthy(clerkUserId) THEN Unauthorized(us, ss)
        ELSE IF ~dbUp
        THEN Out(us, ss, Res(500, ErrorJson("Failed to check voice status")), <<"getUser">>)
        ELSE LET user == GetUser(us, clerkUserId.val)
             IN  Out(us, ss,
                     Res(200, [hasVoiceClone |->
                                   IF user = Null THEN FALSE ELSE Truthy(user.anamVoiceId),
                               voiceId |->
                                   IF user = Null THEN Undefined ELSE user.anamVoiceId]),
                     <<"getUser">>)

\* A story text, as the list of its blocks separated by blank lines; a block
\* is a fixed wording with the names put into it.
Block(wording, childName, parentName) ==
    [wording |-> wording, childName |-> childName, parentName |-> parentName]
PREDEFINED_STORIES ==
    << <<Block("Once upon a time, in a cozy little house on Maple Street", <<>>, <<>>),
         Block("Every morning, they would wake up early", <<>>, <<>>),
         Block("One special day, something magical happened", <<>>, <<>>)>>,
       <<Block("In a land where dreams come true", <<>>, <<>>),
         Block("The meadow was home to friendly creatures", <<>>, <<>>),
         Block("And on this particular evening", <<>>, <<>>)>> >>

LittleOne == <<"l", "i", "t", "t", "l", "e", " ", "o", "n", "e">>
DearFriend == <<"d", "e", "a", "r", " ", "f", "r", "i", "e", "n", "d">>

GenerateMockStory(childName, parentName) ==
    <<Block("Once upon a time, ${childName} went on an amazing adventure with ${parentName}.",
            childName, parentName),
      Block("They discovered a magical forest", <<>>, <<>>),
      Block("At the end of their journey ... ${childName} knew that with ${parentName}",
            childName, parentName)>>

\* storyText.split(/\n\s*\n/).map(trim).filter(non-empty)
SplitParagraphs(storyText) == SelectSeq(storyText, LAMBDA b : b.wording # "")

StoryModes == {"predefined", "generated", "previous"}
ValidMode(mode) == mode.type = "string" /\ mode.val \in StoryModes

\* POST /api/story/start.  rnd: the index Math.random picks; newId: the id
\* generateStoryId returns.
StoryStart(us, ss, req, rnd, newId, dbUp) ==
    LET mode == IF req.body.mode = Undefined THEN Str("predefined") ELSE req.body.mode
        clerkUserId == GetUserId(req)
        failed == Res(500, ErrorJson("Failed to start story"))
    IN  IF ~Truthy(clerkUserId) THEN Unauthorized(us, ss)
        ELSE IF ~ValidMode(mode)
        THEN Out(us, ss, Res(400, ErrorJson("Invalid story mode")), <<>>)
        ELSE IF ~dbUp THEN Out(us, ss, failed, <<"getUser">>)
        ELSE LET user == GetUser(us, clerkUserId.val)
                 previousStory == GetLatestStoryForUser(ss, clerkUserId.val)
                 childName == IF user # Null /\ Truthy(user.childName)
                              THEN user.childName.val ELSE LittleOne
                 parentName == IF user # Null /\ Truthy(user.parentName)
                               THEN user.parentName.val ELSE DearFriend
                 storyText ==
                     CASE mode.val = "predefined" -> PREDEFINED_STORIES[rnd]
                       [] mode.val = "previous" ->
                             IF previousStory # Null THEN previousStory.text
                             ELSE PREDEFINED_STORIES[1]
                       [] mode.val = "generated" -> GenerateMockStory(childName, parentName)
                 paragraphs == SplitParagraphs(storyText)
                 storyData == [storyId |-> newId, clerkUserId |-> clerkUserId.val,
                               mode |-> mode.val, text |-> storyText,
                               paragraphs |-> paragraphs]
                 ops == <<"getUser">>
                        \o (IF mode.val = "previous" THEN <<"getLatestStoryForUser">>
                            ELSE <<>>)
                        \o <<"saveStory">>
                 saved == SaveStory(ss, storyData)
             IN  IF ~saved.ok THEN Out(us, saved.stories, failed, ops)
                 ELSE Out(us, saved.stories,
                          Res(200, [success |-> TRUE, storyId |-> newId, mode |-> mode,
                                    text |-> storyText, paragraphs |-> paragraphs,
                                    paragraphCount |-> Len(paragraphs)]),
                          ops)

\* A story text is the sequence of its characters.  LongWord stands for a run
\* of SENTENCE_SPLIT_LENGTH letters: split, trim and the sentence pattern
\* treat a run of letters as one piece, and only its length matters.
SENTENCE_SPLIT_LENGTH == 200
LongWord == "(200 letters)"
Whitespace == {" ", "\n"}
Terminators == {".", "!", "?"}

\* text.length
RECURSIVE CharCount(_)
CharCount(chars) ==
    IF chars = <<>> THEN 0
    ELSE (IF Head(chars) = LongWord THEN SENTENCE_SPLIT_LENGTH ELSE 1)
         + CharCount(Tail(chars))

\* String.prototype.trim
RECURSIVE TrimWhitespace(_)
TrimWhitespace(chars) ==
    IF chars = <<>> THEN <<>>
    ELSE IF Head(chars) \in Whitespace THEN TrimWhitespace(Tail(chars))
    ELSE IF chars[Len(chars)] \in Whitespace
    THEN TrimWhitespace(SubSeq(chars, 1, Len(chars) - 1))
    ELSE chars

\* text.split(/\n\s*\n/): the leftmost newline that a newline follows after
\* whitespace only starts a separator, which runs to the last such newline
RECURSIVE SplitOnBlankLines(_)
SplitOnBlankLines(chars) ==
    LET Ends(i) == {j \in (i + 1)..Len(chars) :
                      /\ chars[j] = "\n"
                      /\ \A k \in (i + 1)..(j - 1) : chars[k] \in Whitespace}
        starts == {i \in 1..Len(chars) : chars[i] = "\n" /\ Ends(i) # {}}
    IN  IF starts = {} THEN <<chars>>
        ELSE LET i == CHOOSE a \in starts : \A b \in starts : a <= b
                 j == CHOOSE a \in Ends(i) : \A b \in Ends(i) : b <= a
             IN  <<SubSeq(chars, 1, i - 1)>>
                 \o SplitOnBlankLines(SubSeq(chars, j + 1, Len(chars)))

\* paragraph.match(/[^.!?]+[.!?]+/g), the empty sequence for null: each match
\* is a longest run of other characters with the terminators that follow it;
\* terminators before a match and characters after the last terminator are in
\* no match
RECURSIVE MatchSentences(_)
MatchSentences(chars) ==
    LET others == {i \in 1..Len(chars) : chars[i] \notin Terminators}
    IN  IF others = {} THEN <<>>
        ELSE LET s == CHOOSE a \in others : \A b \in others : a <= b
                 stops == {i \in s..Len(chars) : chars[i] \in Terminators}
             IN  IF stops = {} THEN <<>>
                 ELSE LET e == CHOOSE a \in stops : \A b \in stops : a <= b
                          after == {i \in e..Len(chars) : chars[i] \notin Terminators}
                          f == IF after = {} THEN Len(chars)
                               ELSE (CHOOSE a \in after : \A b \in after : a <= b) - 1
                      IN  <<SubSeq(chars, s, f)>>
                          \o MatchSentences(SubSeq(chars, f + 1, Len(chars)))

\* the sentences of a paragraph as the pattern finds them
Sentences(paragraph) ==
    IF MatchSentences(paragraph) = <<>> THEN <<paragraph>> ELSE MatchSentences(paragraph)

\* the texts pushed for one paragraph
ChunkTexts(paragraph) ==
    IF CharCount(paragraph) > SENTENCE_SPLIT_LENGTH
    THEN [k \in 1..Len(Sentences(paragraph)) |-> TrimWhitespace(Sentences(paragraph)[k])]
    ELSE <<paragraph>>

RECURSIVE Flatten(_)
Flatten(seqs) == IF seqs = <<>> THEN <<>> ELSE Head(seqs) \o Flatten(Tail(seqs))

\* splitIntoChunks(text); index is chunks.length at the push.  The duration, an
\* estimate computed from the length of the chunk, is left out.
SplitIntoChunks(text) ==
    LET pieces == SplitOnBlankLines(text)
        trimmed == [k \in 1..Len(pieces) |-> TrimWhitespace(pieces[k])]
        paragraphs == SelectSeq(trimmed, LAMBDA p : Len(p) > 0)
        texts == Flatten([k \in 1..Len(paragraphs) |-> ChunkTexts(paragraphs[k])])
    IN  [k \in 1..Len(texts) |-> [index |-> k - 1, text |-> texts[k]]]

\* POST /api/story/audio-chunks
StoryAudioChunks(us, ss, req, dbUp) ==
    LET storyText == req.body.storyText
        voiceId == req.body.voiceId
        clerkUserId == GetUserId(req)
    IN  IF ~Truthy(clerkUserId) THEN Unauthorized(us, ss)
        ELSE IF ~Truthy(storyText)
        THEN Out(us, ss, Res(400, ErrorJson("Missing required field: storyText")), <<>>)
        ELSE IF ~dbUp
        THEN Out(us, ss, Res(500, ErrorJson("Failed to create audio chunks")), <<"getUser">>)
        ELSE LET user == GetUser(us, clerkUserId.val)
                 effectiveVoiceId ==
                     IF Truthy(voiceId) THEN voiceId
                     ELSE IF user # Null /\ Truthy(user.chosenVoiceId)
                     THEN user.chosenVoiceId
                     ELSE Str("default")
                 chunks == SplitIntoChunks(storyText.val)
             IN  Out(us, ss,
                     Res(200, [chunks |-> chunks, voiceId |-> effectiveVoiceId,
                               totalChunks |-> Len(chunks)]),
                     <<"getUser">>)

\* GET /api/story/history
StoryHistory(us, ss, req, dbUp) ==
    LET clerkUserId == GetUserId(req)
    IN  IF ~Truthy(clerkUserId) THEN Unauthorized(us, ss)
        ELSE IF ~dbUp
        THEN Out(us, ss, Res(500, ErrorJson("Failed to retrieve story history")),
                 <<"getStoriesForUser">>)
        ELSE LET found == GetStoriesForUser(ss, clerkUserId.val)
             IN  Out(us, ss, Res(200, [stories |-> found, count |-> Len(found)]),
                     <<"getStoriesForUser">>)

\* GET /api/story/:id
StoryGet(us, ss, req, dbUp) ==
    IF ~dbUp
    THEN Out(us, ss, Res(500, ErrorJson("Failed to retrieve story")), <<"getStory">>)
    ELSE LET story == GetStory(ss, Below(StoryMount, req.path)[1])
         IN  IF story = Null
             THEN Out(us, ss, Res(404, ErrorJson("Story not found")), <<"getStory">>)
             ELSE Out(us, ss, Res(200, story), <<"getStory">>)

(***************************************************************************)
(* The requests the specifications draw from.                              *)
(***************************************************************************)
StoryIds == {"story_1", "story_2"}
UserIds == {Null} \cup {Str(u) : u \in ClerkIds}

ValidNames ==
    Body(Text(<<" ", "A", "n", "n", " ">>), Text(<<"B", "o">>), Undefined, Undefined,
         Undefined, Undefined, Undefined)
NameBodies ==
    {Body(p, c, Undefined, Undefined, Undefined, Undefined, Undefined) :
        p \in {Undefined, Text(<<>>), Num5, Text(<<" ", "A", "n", "n", " ">>)},
        c \in {Undefined, Text(<<"B", "o">>)}}
VoiceBodies ==
    {Body(Undefined, Undefined, v, Undefined, Undefined, Undefined, Undefined) :
        v \in {Undefined, Str(""), Str("v1")}}
ModeBody(m) == Body(Undefined, Undefined, Undefined, Undefined, m, Undefined, Undefined)
ModeBodies ==
    {ModeBody(m) : m \in {Undefined, Null, Str("bogus"), Str("predefined"),
                          Str("generated"), Str("previous")}}
ChunkBodies ==
    {Body(Undefined, Undefined, Undefined, Undefined, Undefined, t, Undefined) :
        t \in {Undefined, Text(<<>>), Text(<<"H", "i", ".">>)}}

RequestsOf(userIds, method, path, bodies, files) ==
    {Req(method, path, u, b, f) : u \in userIds, b \in bodies, f \in files}

\* one request to every route and to a path that has none
EveryRoute(userIds) ==
    RequestsOf(userIds, "GET", <<"health">>, {EmptyBody}, {FALSE})
    \cup RequestsOf(userIds, "GET", <<"api", "hello">>, {EmptyBody}, {FALSE})
    \cup RequestsOf(userIds, "GET", <<"api", "onboarding", "status">>, {EmptyBody}, {FALSE})
    \cup RequestsOf(userIds, "POST", <<"api", "onboarding">>, {ValidNames}, {FALSE})
    \cup RequestsOf(userIds, "POST", <<"api", "onboarding", "voice">>, {EmptyBody}, {FALSE})
    \cup RequestsOf(userIds, "POST", <<"api", "onboarding", "complete">>, {EmptyBody},
                    {FALSE})
    \cup RequestsOf(userIds, "GET", <<"api", "onboarding", "current">>, {EmptyBody}, {FALSE})
    \cup RequestsOf(userIds, "POST", <<"api", "onboarding", "voice", "create">>,
                    {EmptyBody}, {FALSE})
    \cup RequestsOf(userIds, "GET", <<"api", "onboarding", "voice", "status">>,
                    {EmptyBody}, {FALSE})
    \cup RequestsOf(userIds, "POST", <<"api", "story", "start">>,
                    {ModeBody(Str("predefined"))}, {FALSE})
    \cup RequestsOf(userIds, "POST", <<"api", "story", "audio-chunks">>, {EmptyBody},
                    {FALSE})
    \cup RequestsOf(userIds, "GET", <<"api", "story", "history">>, {EmptyBody}, {FALSE})
    \cup RequestsOf(userIds, "GET", <<"api", "story", "story_1">>, {EmptyBody}, {FALSE})
    \cup RequestsOf(userIds, "GET", <<"api", "missing">>, {EmptyBody}, {FALSE})

SignedIn == {Str(u) : u \in ClerkIds}

\* SpecServer: every route from everyone, the onboarding and validation
\* inputs in full
HttpRequests ==
    EveryRoute(UserIds)
    \cup RequestsOf(SignedIn, "POST", <<"api", "onboarding">>, NameBodies, {FALSE})
    \cup RequestsOf(SignedIn, "POST", <<"api", "onboarding", "voice">>, VoiceBodies,
                    {FALSE})
    \cup RequestsOf(SignedIn, "POST", <<"api", "onboarding", "voice", "create">>,
                    {EmptyBody}, {TRUE})
    \cup RequestsOf(SignedIn, "POST", <<"api", "story", "start">>,
                    {ModeBody(m) : m \in {Undefined, Null, Str("bogus"), Str("previous")}},
                    {FALSE})
    \cup RequestsOf(SignedIn, "POST", <<"api", "story", "audio-chunks">>, ChunkBodies,
                    {FALSE})
HttpStoryIds == {"story_1"}

\* SpecStories: every route from everyone, the story inputs in full
StoryRequests ==
    EveryRoute({Null, Str("u1")})
    \cup RequestsOf({Str("u2")}, "GET", <<"api", "story", "history">>, {EmptyBody}, {FALSE})
    \cup RequestsOf(SignedIn, "POST", <<"api", "story", "start">>, ModeBodies, {FALSE})
    \cup RequestsOf(SignedIn, "GET", <<"api", "story", "story_2">>, {EmptyBody}, {FALSE})

ServerIdle == http = Undefined

\* the exchange is recorded and the handler's writes take effect
Serve(req, out) ==
    /\ http' = [type |-> "exchange", req |-> req, res |-> out.res]
    /\ users' = out.users
    /\ stories' = out.stories
    /\ storeOps' = out.ops

HttpHealth(req) ==
    /\ ServerIdle
    /\ Dispatch(req) = "health"
    /\ Serve(req, Out(users, stories, Res(200, [status |-> "ok"]), <<>>))
    /\ UNCHANGED <<agentVars, storyVars, clientVars, pending, completion>>

HttpHello(req) ==
    /\ ServerIdle
    /\ Dispatch(req) = "hello"
    /\ Serve(req, Out(users, stories,
                      Res(200, [message |-> "Hello from Story Time API!"]), <<>>))
    /\ UNCHANGED <<agentVars, storyVars, clientVars, pending, completion>>

\* isAuthenticated answers for a protected mount
HttpUnauthorized(req) ==
    /\ ServerIdle
    /\ Dispatch(req) = "unauthorized"
    /\ Serve(req, Out(users, stories,
                      Res(401, [error |-> "Unauthorized",
                                message |-> "You must be signed in to access this resource"]),
                      <<>>))
    /\ UNCHANGED <<agentVars, storyVars, clientVars, pending, completion>>

\* the 404 handler
HttpNotFound(req) ==
    /\ ServerIdle
    /\ Dispatch(req) = "notFound"
    /\ Serve(req, Out(users, stories, Res(404, ErrorJson("Not found")), <<>>))
    /\ UNCHANGED <<agentVars, storyVars, clientVars, pending, completion>>

HttpOnboardingStatus(req, dbUp) ==
    /\ ServerIdle
    /\ Dispatch(req) = "onboarding.status"
    /\ \E out \in {OnboardingStatus(users, stories, req, dbUp)} : Serve(req, out)
    /\ UNCHANGED <<agentVars, storyVars, clientVars, pending, completion>>

HttpOnboardingStart(req, dbUp) ==
    /\ ServerIdle
    /\ Dispatch(req) = "onboarding.start"
    /\ \E out \in {OnboardingStart(users, stories, req, dbUp)} :
          /\ Serve(req, out)
          /\ completion' =
                IF out.res.status = 201 /\ completion[req.userId.val] # "never"
                THEN [completion EXCEPT ![req.userId.val] = "restarted"]
                ELSE completion
    /\ UNCHANGED <<agentVars, storyVars, clientVars, pending>>

HttpOnboardingVoice(req, dbUp, tick) ==
    /\ ServerIdle
    /\ Dispatch(req) = "onboarding.voice"
    /\ \E out \in {OnboardingVoice(users, stories, req, dbUp, tick)} : Serve(req, out)
    /\ UNCHANGED <<agentVars, storyVars, clientVars, pending, completion>>

HttpOnboardingComplete(req, dbUp, tick) ==
    /\ ServerIdle
    /\ Dispatch(req) = "onboarding.complete"
    /\ \E out \in {OnboardingComplete(users, stories, req, dbUp, tick)} :
          /\ Serve(req, out)
          /\ completion' =
                IF out.res.status = 200
                THEN [completion EXCEPT ![req.userId.val] = "complete"]
                ELSE completion
    /\ UNCHANGED <<agentVars, storyVars, clientVars, pending>>

HttpOnboardingCurrent(req, dbUp) ==
    /\ ServerIdle
    /\ Dispatch(req) = "onboarding.current"
    /\ \E out \in {OnboardingCurrent(users, stories, req, dbUp)} : Serve(req, out)
    /\ UNCHANGED <<agentVars, storyVars, clientVars, pending, completion>>

HttpVoiceCreate(req, apiKey, fetched, dbUp, tick) ==
    /\ ServerIdle
    /\ Dispatch(req) = "voice.create"
    /\ \E out \in {VoiceCreate(users, stories, req, apiKey, fetched, dbUp, tick)} :
          Serve(req, out)
    /\ UNCHANGED <<agentVars, storyVars, clientVars, pending, completion>>

HttpVoiceStatus(req, dbUp) ==
    /\ ServerIdle
    /\ Dispatch(req) = "voice.status"
    /\ \E out \in {VoiceStatus(users, stories, req, dbUp)} : Serve(req, out)
    /\ UNCHANGED <<agentVars, storyVars, clientVars, pending, completion>>

HttpStoryStart(req, rnd, newId, dbUp) ==
    /\ ServerIdle
    /\ Dispatch(req) = "story.start"
    /\ \E out \in {StoryStart(users, stories, req, rnd, newId, dbUp)} : Serve(req, out)
    /\ UNCHANGED <<agentVars, storyVars, clientVars, pending, completion>>

HttpStoryAudioChunks(req, dbUp) ==
    /\ ServerIdle
    /\ Dispatch(req) = "story.audioChunks"
    /\ \E out \in {StoryAudioChunks(users, stories, req, dbUp)} : Serve(req, out)
    /\ UNCHANGED <<agentVars, storyVars, clientVars, pending, completion>>

HttpStoryHistory(req, dbUp) ==
    /\ ServerIdle
    /\ Dispatch(req) = "story.history"
    /\ \E out \in {StoryHistory(users, stories, req, dbUp)} : Serve(req, out)
    /\ UNCHANGED <<agentVars, storyVars, clientVars, pending, completion>>

HttpStoryGet(req, dbUp) ==
    /\ ServerIdle
    /\ Dispatch(req) = "story.get"
    /\ \E out \in {StoryGet(users, stories, req, dbUp)} : Serve(req, out)
    /\ UNCHANGED <<agentVars, storyVars, clientVars, pending, completion>>

\* the response has been sent; the server waits for the next request
HttpDone ==
    /\ ~ServerIdle
    /\ http' = Undefined
    /\ storeOps' = <<>>
    /\ UNCHANGED <<agentVars, storyVars, clientVars, users, stories, pending, completion>>

\* the requests of a set that each handler answers
RouteNames ==
    {"health", "hello", "unauthorized", "notFound", "onboarding.status",
     "onboarding.start", "onboarding.voice", "onboarding.complete",
     "onboarding.current", "voice.create", "voice.status", "story.start",
     "story.audioChunks", "story.history", "story.get"}
ByRoute(requests) == [h \in RouteNames |-> {req \in requests : Dispatch(req) = h}]

InitServer == AgentAtRest /\ ServerAtRest /\ StoryAtRest /\ ClientAtRest

\* each step serves a request, or ends the exchange
HttpRouted == ByRoute(HttpRequests)
NextServer ==
    \/ \E req \in HttpRouted["health"] : HttpHealth(req)
    \/ \E req \in HttpRouted["hello"] : HttpHello(req)
    \/ \E req \in HttpRouted["unauthorized"] : HttpUnauthorized(req)
    \/ \E req \in HttpRouted["notFound"] : HttpNotFound(req)
    \/ \E req \in HttpRouted["onboarding.status"], d \in BOOLEAN :
          HttpOnboardingStatus(req, d)
    \/ \E req \in HttpRouted["onboarding.start"], d \in BOOLEAN :
          HttpOnboardingStart(req, d)
    \/ \E req \in HttpRouted["onboarding.voice"], d \in BOOLEAN, t \in BOOLEAN :
          HttpOnboardingVoice(req, d, t)
    \/ \E req \in HttpRouted["onboarding.complete"], d \in BOOLEAN, t \in BOOLEAN :
          HttpOnboardingComplete(req, d, t)
    \/ \E req \in HttpRouted["onboarding.current"], d \in BOOLEAN :
          HttpOnboardingCurrent(req, d)
    \/ \E req \in HttpRouted["voice.create"], k \in BOOLEAN, f \in BOOLEAN, d \in BOOLEAN,
          t \in BOOLEAN : HttpVoiceCreate(req, k, f, d, t)
    \/ \E req \in HttpRouted["voice.status"], d \in BOOLEAN : HttpVoiceStatus(req, d)
    \/ \E req \in HttpRouted["story.start"], rnd \in 1..Len(PREDEFINED_STORIES),
          id \in HttpStoryIds, d \in BOOLEAN : HttpStoryStart(req, rnd, id, d)
    \/ \E req \in HttpRouted["story.audioChunks"], d \in BOOLEAN :
          HttpStoryAudioChunks(req, d)
    \/ \E req \in HttpRouted["story.history"], d \in BOOLEAN : HttpStoryHistory(req, d)
    \/ \E req \in HttpRouted["story.get"], d \in BOOLEAN : HttpStoryGet(req, d)
    \/ HttpDone

SpecServer == InitServer /\ [][NextServer]_vars

StoryRouted == ByRoute(StoryRequests)
NextStories ==
    \/ \E req \in StoryRouted["health"] : HttpHealth(req)
    \/ \E req \in StoryRouted["hello"] : HttpHello(req)
    \/ \E req \in StoryRouted["unauthorized"] : HttpUnauthorized(req)
    \/ \E req \in StoryRouted["notFound"] : HttpNotFound(req)
    \/ \E req \in StoryRouted["onboarding.status"], d \in BOOLEAN :
          HttpOnboardingStatus(req, d)
    \/ \E req \in StoryRouted["onboarding.start"], d \in BOOLEAN :
          HttpOnboardingStart(req, d)
    \/ \E req \in StoryRouted["onboarding.voice"], d \in BOOLEAN, t \in BOOLEAN :
          HttpOnboardingVoice(req, d, t)
    \/ \E req \in StoryRouted["onboarding.complete"], d \in BOOLEAN, t \in BOOLEAN :
          HttpOnboardingComplete(req, d, t)
    \/ \E req \in StoryRouted["onboarding.current"], d \in BOOLEAN :
          HttpOnboardingCurrent(req, d)
    \/ \E req \in StoryRouted["voice.create"], k \in BOOLEAN, f \in BOOLEAN, d \in BOOLEAN,
          t \in BOOLEAN : HttpVoiceCreate(req, k, f, d, t)
    \/ \E req \in StoryRouted["voice.status"], d \in BOOLEAN : HttpVoiceStatus(req, d)
    \/ \E req \in StoryRouted["story.start"], rnd \in 1..Len(PREDEFINED_STORIES),
          id \in StoryIds, d \in BOOLEAN : HttpStoryStart(req, rnd, id, d)
    \/ \E req \in StoryRouted["story.audioChunks"], d \in BOOLEAN :
          HttpStoryAudioChunks(req, d)
    \/ \E req \in StoryRouted["story.history"], d \in BOOLEAN : HttpStoryHistory(req, d)
    \/ \E req \in StoryRouted["story.get"], d \in BOOLEAN : HttpStoryGet(req, d)
    \/ HttpDone

SpecStories == InitServer /\ [][NextStories]_vars


(***************************************************************************)
(* Properties of the REST API.                                             *)
(***************************************************************************)
IsRequest(method, path) ==
    /\ ~ServerIdle
    /\ http.req.method = method
    /\ http.req.path = path

\* the step that serves a request: the exchange appears
Served == ServerIdle /\ ~ServerIdle'

StartPath == <<"api", "story", "start">>
StatusPath == <<"api", "onboarding", "status">>

C7_Step ==
    /\ Len(stories') >= Len(stories)
    /\ \A i \in 1..Len(stories) : stories'[i] = stories[i]
    /\ \A u \in ClerkIds :
          Len(GetStoriesForUser(stories', u)) >= Len(GetStoriesForUser(stories, u))
    /\ IF /\ Served
          /\ http'.req.method = "POST"
          /\ http'.req.path = StartPath
          /\ http'.res.status = 200
       THEN /\ Len(stories') = Len(stories) + 1
            /\ stories'[Len(stories')].clerkUserId = http'.req.userId.val
            /\ stories'[Len(stories')].storyId = http'.res.json.storyId
       ELSE stories' = stories

\* C7: stories are append-only and associated to a user. Each successful
\* POST /api/story/start adds exactly one Story whose clerkUserId is the
\* requesting user; no request removes a stored story or changes its
\* storyId, clerkUserId, mode, text or paragraphs; no user's history shrinks.
C7_AppendOnly == [][C7_Step]_vars

\* C7 witness: a second story has just been started, by another user than
\* the first, and both are stored.
C7_Witness ==
    /\ IsRequest("POST", StartPath)
    /\ http.res.status = 200
    /\ Len(stories) = 2
    /\ stories[1].clerkUserId # stories[2].clerkUserId
    /\ stories[2].clerkUserId = http.req.userId.val

\* the paths under the mounts /api/onboarding (which holds
\* /api/onboarding/voice) and /api/story
UnderProtectedMount(path) ==
    \/ Len(path) >= 2 /\ path[1] = "api" /\ path[2] = "onboarding"
    \/ Len(path) >= 2 /\ path[1] = "api" /\ path[2] = "story"

C8_Inv ==
    ~ServerIdle =>
        /\ (http.req.userId = Null /\ UnderProtectedMount(http.req.path)) =>
              /\ http.res.status = 401
              /\ storeOps = <<>>
        /\ (http.req.method = "GET"
            /\ http.req.path \in {<<"health">>, <<"api", "hello">>}) =>
              http.res.status = 200

C8_Step ==
    (Served /\ http'.req.userId = Null /\ UnderProtectedMount(http'.req.path)) =>
        /\ users' = users
        /\ stories' = stories

\* C8: auth gating. A request to a route under /api/onboarding,
\* /api/onboarding/voice or /api/story that carries no authenticated user id
\* is answered 401 and neither reads nor writes the store; GET /health and
\* GET /api/hello are answered 200 with or without authentication.
C8_AuthGating == []C8_Inv /\ [][C8_Step]_vars

\* C8 witness: a request without user id for a stored story, on the one
\* route whose handler does not check the user id itself, answered 401.
C8_Witness ==
    /\ IsRequest("GET", <<"api", "story", "story_1">>)
    /\ http.req.userId = Null
    /\ StoryIdTaken(stories, "story_1")
    /\ http.res.status = 401

\* a request that lacks a required field or carries a mode that is none of
\* the three
FailsValidation(req) ==
    \/ /\ req.method = "POST" /\ req.path = <<"api", "onboarding">>
       /\ \/ req.body.parentName \in {Undefined, Text(<<>>)}
          \/ req.body.childName \in {Undefined, Text(<<>>)}
    \/ /\ req.method = "POST" /\ req.path = <<"api", "onboarding", "voice">>
       /\ req.body.anamVoiceId \in {Undefined, Str("")}
    \/ /\ req.method = "POST" /\ req.path = StartPath
       /\ req.body.mode # Undefined
       /\ req.body.mode \notin {Str(m) : m \in StoryModes}
    \/ /\ req.method = "POST" /\ req.path = <<"api", "story", "audio-chunks">>
       /\ req.body.storyText \in {Undefined, Text(<<>>)}

C9_Inv ==
    (~ServerIdle /\ http.req.userId # Null /\ FailsValidation(http.req)) =>
        http.res.status = 400

C9_Step ==
    (Served /\ http'.req.userId # Null /\ FailsValidation(http'.req)) =>
        /\ users' = users
        /\ stories' = stories

\* C9: required-field validation. An authenticated request that fails
\* validation (POST /api/onboarding without parentName or childName, POST
\* /api/onboarding/voice without anamVoiceId, POST /api/story/start with a
\* mode outside predefined, generated, previous, POST /api/story/audio-chunks
\* without storyText) is answered 400 and leaves the User and Story
\* collections unchanged.
C9_Validation == []C9_Inv /\ [][C9_Step]_vars

\* C9 witness: onboarding data sent without parentName by a user who has a
\* record, while a story is stored, answered 400.
C9_Witness ==
    /\ IsRequest("POST", <<"api", "onboarding">>)
    /\ http.req.userId = Str("u1")
    /\ http.req.body.parentName = Undefined
    /\ http.req.body.childName # Undefined
    /\ GetUser(users, "u1") # Null
    /\ stories # <<>>
    /\ http.res.status = 400

\* GET /api/onboarding/status answered for a signed-in user
StatusReported ==
    /\ IsRequest("GET", StatusPath)
    /\ http.req.userId # Null
    /\ http.res.status = 200

\* C10 as stated: once POST /api/onboarding/complete has been answered
\* success for a user, every later GET /api/onboarding/status for that user
\* reports onboardingComplete = true, whatever requests came in between.
C10_CompleteForGood ==
    (StatusReported /\ completion[http.req.userId.val] # "never") =>
        http.res.json.onboardingComplete = TRUE

\* C10 as the code has it: once POST /api/onboarding/complete has been
\* answered success for a user, every later GET /api/onboarding/status for
\* that user reports onboardingComplete = true as long as no POST
\* /api/onboarding of that user has been answered 201 since; no other request
\* takes the mark away.
C10_CompleteUntilRestart ==
    (StatusReported /\ completion[http.req.userId.val] = "complete") =>
        http.res.json.onboardingComplete = TRUE

\* C10 witness: the status of a user whose onboarding is complete is
\* reported after the other user has started onboarding again and a story
\* has been started.
C10_Witness ==
    /\ StatusReported
    /\ http.req.userId = Str("u1")
    /\ completion["u1"] = "complete"
    /\ completion["u2"] = "restarted"
    /\ stories # <<>>
    /\ http.res.json.onboardingComplete = TRUE

(***************************************************************************)
(* apps/client: the Next.js app.  Page() renders the story app or          *)
(* redirects to onboarding; the connection-details route issues the        *)
(* LiveKit token a story room is joined with.                              *)
(***************************************************************************)
\* what fetch(`/api/onboarding/status`) comes to: the server answers, the
\* server answers while its store is down, or fetch itself throws
FetchOutcomes == {"answered", "storeDown", "unreachable"}

\* response.ok
ResponseOk(res) == res.status >= 200 /\ res.status <= 299

\* (app)/page.tsx Page(): "app" is <App/>, otherwise the redirect target
PageRender(us, ss, userId, fetched) ==
    IF ~Truthy(userId) THEN "app"
    ELSE LET req == Req("GET", <<"api", "onboarding", "status">>, userId, EmptyBody,
                        FALSE)
             out == OnboardingStatus(us, ss, req, fetched = "answered")
             needsOnboarding ==
                 IF fetched = "unreachable" THEN FALSE
                 ELSE IF ResponseOk(out.res) THEN ~out.res.json.onboardingComplete
                 ELSE FALSE
         IN  IF needsOnboarding THEN "/onboarding" ELSE "app"

\* redirect(target) of next/navigation returns nothing: it throws
Redirect(target) == [type |-> "thrown", error |-> "NEXT_REDIRECT", target |-> target]
Completed == [type |-> "completed", error |-> "", target |-> ""]

\* the try block of OnboardingPage(): the status request and the redirect of a
\* user whose onboarding is complete
StatusCheck(us, ss, userId, fetched) ==
    LET req == Req("GET", <<"api", "onboarding", "status">>, userId, EmptyBody, FALSE)
        out == OnboardingStatus(us, ss, req, fetched = "answered")
    IN  IF fetched = "unreachable"
        THEN [type |-> "thrown", error |-> "fetch failed", target |-> ""]
        ELSE IF ResponseOk(out.res) /\ out.res.json.onboardingComplete = TRUE
        THEN Redirect("/")
        ELSE Completed

\* the catch block of OnboardingPage(): whatever the try block threw is
\* logged, and nothing is thrown on
Caught(thrown) == Completed

\* OnboardingPage(): "flow" is <OnboardingFlow/>, otherwise the redirect
\* target.  The redirect to /sign-in is outside the try block.
OnboardingPageRender(us, ss, userId, fetched) ==
    IF ~Truthy(userId) THEN "/sign-in"
    ELSE LET tried == StatusCheck(us, ss, userId, fetched)
             after == IF tried.type = "thrown" THEN Caught(tried) ELSE tried
         IN  IF after.type = "thrown" THEN after.target ELSE "flow"

\* the literal the connection-details route initialises voiceId with
ConnectionVoiceId == "SF9uvIlY93SJRMdV5jeP"

\* connection details: the voice id lookup.  The request to
\* /api/onboarding/current is made only when voiceId is falsy.
LookupVoiceId(us, ss, userId, fetched) ==
    LET voiceId == Str(ConnectionVoiceId)
    IN  IF Truthy(voiceId) THEN voiceId
        ELSE IF ~Truthy(userId) \/ fetched = "unreachable" THEN voiceId
        ELSE LET req == Req("GET", <<"api", "onboarding", "current">>, userId,
                            EmptyBody, FALSE)
                 out == OnboardingCurrent(us, ss, req, fetched = "answered")
             IN  IF ResponseOk(out.res) THEN out.res.json.anamVoiceId ELSE voiceId

\* createParticipantToken: the grant and, when an agent is named, the room
\* configuration that dispatches the agent with its metadata
CreateParticipantToken(identity, roomName, agentName, voiceId) ==
    [identity |-> identity, room |-> roomName,
     agent |-> IF Truthy(agentName)
               THEN [type |-> "agent", agentName |-> agentName,
                     metadata |-> [voice_id |-> IF Truthy(voiceId) THEN voiceId
                                                ELSE Undefined]]
               ELSE Undefined]

\* POST of the connection-details route.  env: the three LIVEKIT variables
\* are defined; bodyOk: req.json() parses; rnd: the random room number
ConnectionDetails(us, ss, userId, env, bodyOk, agentName, fetched, rnd) ==
    IF ~env \/ ~bodyOk
    THEN [type |-> "response", userId |-> userId, status |-> 500, token |-> Undefined]
    ELSE [type |-> "response", userId |-> userId, status |-> 200,
          token |-> CreateParticipantToken("voice_assistant_user", rnd, agentName,
                                           LookupVoiceId(us, ss, userId, fetched))]

\* a render or an answer is recorded by the step that makes it and dropped
\* when the browser has taken it
ClientIdle == page = Undefined /\ conn = Undefined /\ onboardingPage = Undefined

ClientPage(userId, fetched) ==
    /\ ClientIdle
    /\ ServerIdle
    /\ page' = [type |-> "render", userId |-> userId, fetched |-> fetched,
                served |-> PageRender(users, stories, userId, fetched)]
    /\ UNCHANGED <<agentVars, serverVars, storyVars, conn, onboardingPage, recorder, flow>>

ClientConnectionDetails(userId, env, bodyOk, agentName, fetched, rnd) ==
    /\ ClientIdle
    /\ ServerIdle
    /\ conn' = ConnectionDetails(users, stories, userId, env, bodyOk, agentName,
                                 fetched, rnd)
    /\ UNCHANGED <<agentVars, serverVars, storyVars, page, onboardingPage, recorder, flow>>

\* a request for /onboarding
ClientOnboardingPage(userId, fetched) ==
    /\ ClientIdle
    /\ ServerIdle
    /\ onboardingPage' = [type |-> "render", userId |-> userId, fetched |-> fetched,
                          served |-> OnboardingPageRender(users, stories, userId, fetched)]
    /\ UNCHANGED <<agentVars, serverVars, storyVars, page, conn, recorder, flow>>

ClientDone ==
    /\ ~ClientIdle
    /\ page' = Undefined
    /\ conn' = Undefined
    /\ onboardingPage' = Undefined
    /\ UNCHANGED <<agentVars, serverVars, storyVars, recorder, flow>>

AgentNames == {Undefined, Str("story-time-agent")}
ClientRooms == {"voice_assistant_room_1", "voice_assistant_room_2"}

\* the server requests of the client specification: the onboarding flow and
\* the start of a story, from either user
ClientRequests ==
    RequestsOf(SignedIn, "POST", <<"api", "onboarding">>, {ValidNames}, {FALSE})
    \cup RequestsOf(SignedIn, "POST", <<"api", "onboarding", "voice">>,
                    {Body(Undefined, Undefined, Str("v1"), Undefined, Undefined,
                          Undefined, Undefined)}, {FALSE})
    \cup RequestsOf(SignedIn, "POST", <<"api", "onboarding", "complete">>, {EmptyBody},
                    {FALSE})
    \cup RequestsOf(SignedIn, "POST", <<"api", "story", "start">>,
                    {ModeBody(Undefined)}, {FALSE})
ClientRouted == ByRoute(ClientRequests)

NextClient ==
    \/ \E u \in UserIds, f \in FetchOutcomes : ClientPage(u, f)
    \/ \E u \in UserIds, env \in BOOLEAN, b \in BOOLEAN, a \in AgentNames,
          f \in FetchOutcomes, r \in ClientRooms :
          ClientConnectionDetails(u, env, b, a, f, r)
    \/ \E u \in UserIds, f \in FetchOutcomes : ClientOnboardingPage(u, f)
    \/ ClientDone
    \/ \E req \in ClientRouted["onboarding.start"], d \in BOOLEAN :
          ClientIdle /\ HttpOnboardingStart(req, d)
    \/ \E req \in ClientRouted["onboarding.voice"], d \in BOOLEAN, t \in BOOLEAN :
          ClientIdle /\ HttpOnboardingVoice(req, d, t)
    \/ \E req \in ClientRouted["onboarding.complete"], d \in BOOLEAN, t \in BOOLEAN :
          ClientIdle /\ HttpOnboardingComplete(req, d, t)
    \/ \E req \in ClientRouted["story.start"], rnd \in 1..Len(PREDEFINED_STORIES),
          id \in HttpStoryIds, d \in BOOLEAN :
          ClientIdle /\ HttpStoryStart(req, rnd, id, d)
    \/ HttpDone

SpecClient == InitServer /\ [][NextClient]_vars

\* the user has a record and has completed onboarding
Onboarded(us, userId) ==
    /\ GetUser(us, userId.val) # Null
    /\ GetUser(us, userId.val).onboardingComplete = TRUE

C11_Step ==
    /\ (page = Undefined /\ page' # Undefined /\ page'.userId # Null /\ ~Onboarded(users, page'.userId)) =>
          page'.served # "app"
    /\ (conn = Undefined /\ conn' # Undefined /\ conn'.userId # Null /\ ~Onboarded(users, conn'.userId)) =>
          conn'.status # 200
    /\ (Served /\ http'.req.method = "POST" /\ http'.req.path = StartPath
        /\ http'.req.userId # Null /\ ~Onboarded(users, http'.req.userId)) =>
          http'.res.status # 200

\* C11: no story without onboarding data. A signed-in user who has no user
\* record, or whose onboarding is not complete, is never served the story app
\* page, never receives LiveKit connection details and never gets a success
\* response from POST /api/story/start, also when the onboarding status
\* request fails.
C11_NoStoryWithoutOnboarding == [][C11_Step]_vars

C19_Step ==
    (/\ conn = Undefined
     /\ conn' # Undefined
     /\ conn'.status = 200
     /\ conn'.token.agent # Undefined
     /\ conn'.userId # Null
     /\ GetUser(users, conn'.userId.val) # Null
     /\ Truthy(GetUser(users, conn'.userId.val).anamVoiceId)) =>
        conn'.token.agent.metadata.voice_id =
            GetUser(users, conn'.userId.val).anamVoiceId

\* C19: the voice id a story room's agent is dispatched with is the
\* requesting parent's stored voice id: when connection details are issued
\* for a signed-in user who has a stored anamVoiceId, the voice_id in the
\* agent metadata of the token equals that stored id.
C19_OwnVoice == [][C19_Step]_vars

(***************************************************************************)
(* Properties of the session's voice.                                      *)
(***************************************************************************)
\* the voice the job metadata asks for, if it asks for one
RequestedVoice(metadata) ==
    IF /\ metadata.kind = "object"
       /\ metadata.voice_id.type = "string"
       /\ metadata.voice_id.val # ""
    THEN metadata.voice_id.val
    ELSE DEFAULT_VOICE_ID

C12_Step ==
    (pc = "new" /\ pc' = "starting") =>
        tts'[AgentSession] = RequestedVoice(jobMetadata')

\* C12: default voice fallback. The voice of the TTS a session is created
\* with equals the job metadata's voice_id when the metadata is valid JSON
\* whose voice_id is a non-empty string, and DEFAULT_VOICE_ID in every other
\* case (no metadata, unparseable metadata, voice_id absent, empty or not a
\* string); extracting the voice id never throws, so the session is created.
C12_VoiceFallback ==
    /\ [][C12_Step]_vars
    /\ [](pc \in {"starting", "active", "startFailed"} => tts[AgentSession] # NoVoice)

\* C12 witness: a session created with the default voice because the
\* metadata's voice_id is the empty string.
C12_Witness ==
    /\ pc = "starting"
    /\ jobMetadata.kind = "object"
    /\ jobMetadata.voice_id = Str("")
    /\ tts[AgentSession] = DEFAULT_VOICE_ID

(***************************************************************************)
(* agent-logic/agents: the synopsis agent and the storytelling agent, and  *)
(* tools/storytelling-tools (listed in HANDLERS.md): the three function    *)
(* tools the voice agent calls, over the two module-level maps.            *)
(***************************************************************************)
\* a JavaScript number that the code counts or compares with
Number(n) == [type |-> "number", num |-> n]

\* a < b on a number and a value that may be undefined (false then)
LessThan(n, v) == v.type = "number" /\ n < v.num
\* a >= b likewise
AtLeast(n, v) == v.type = "number" /\ n >= v.num

\* the StoryContext processOnboarding resolves with
StoryContext(childName, length) ==
    [type |-> "context", childName |-> childName, preferredStoryLength |-> length]

\* getStoryLengthConfig: the switch has no default, so any other value gives
\* undefined
GetStoryLengthConfig(length) ==
    CASE length = "quick" -> [pages |-> 3]
      [] length = "medium" -> [pages |-> 5]
      [] length = "bedtime" -> [pages |-> 8]
      [] OTHER -> Undefined

\* buildSynopsisPrompt reads lengthConfig.description: a TypeError when the
\* length is none of the three
SynopsisPromptThrows(context) ==
    GetStoryLengthConfig(context.preferredStoryLength) = Undefined

OutlineBeats ==
    <<"The ordinary day turns extraordinary", "A challenge appears that needs solving",
      "Help comes from an unexpected place", "The lesson is learned through experience",
      "Home sweet home, wiser than before">>

\* Array.prototype.slice(0, n)
Slice(seq, n) ==
    SubSeq(seq, 1, IF n < 0 THEN 0 ELSE IF n > Len(seq) THEN Len(seq) ELSE n)

FallbackKeepsOutline(context) ==
    LET lengthConfig == GetStoryLengthConfig(context.preferredStoryLength)
    IN  [type |-> "synopsis", title |-> context.childName \o "'s Magical Adventure",
         estimatedPages |-> Number(lengthConfig.pages), outline |-> OutlineBeats]

CreateFallbackSynopsis(context) ==
    LET lengthConfig == GetStoryLengthConfig(context.preferredStoryLength)
    IN  [type |-> "synopsis", title |-> context.childName \o "'s Magical Adventure",
         estimatedPages |-> Number(lengthConfig.pages),
         outline |-> Slice(OutlineBeats, lengthConfig.pages)]

\* The LLM's answer is a sequence of chunks: a code fence of three backticks
\* with or without the json tag, white space, a brace, a member of a JSON
\* object (p2 and p0 are "estimatedPages": 2 and 0, k is any other member)
\* or prose.
Chunks == {"FENCE_JSON", "FENCE", " ", "{", "}", "p2", "p0", "k", "x"}
Members == {"p2", "p0", "k"}

\* content.trim() and the three replace calls
CleanContent(content) ==
    LET trimmed == Trim(content)
        noJsonFence == IF trimmed # <<>> /\ Head(trimmed) = "FENCE_JSON"
                       THEN TrimStart(Tail(trimmed)) ELSE trimmed
        noFence == IF noJsonFence # <<>> /\ Head(noJsonFence) = "FENCE"
                   THEN TrimStart(Tail(noJsonFence)) ELSE noJsonFence
        ended == TrimEnd(noFence)
    IN  IF ended # <<>> /\ ended[Len(ended)] = "FENCE"
        THEN SubSeq(ended, 1, Len(ended) - 1)
        ELSE noFence

\* cleanContent.match(/\{[\s\S]*\}/): from the first { to the last }
JsonMatch(clean) ==
    LET opens == {i \in 1..Len(clean) : clean[i] = "{"}
        closes == {i \in 1..Len(clean) : clean[i] = "}"}
    IN  IF opens = {} \/ closes = {} THEN Null
        ELSE LET first == CHOOSE i \in opens : \A j \in opens : i <= j
                 last == CHOOSE i \in closes : \A j \in closes : i >= j
             IN  IF first < last THEN Text(SubSeq(clean, first, last)) ELSE Null

\* JSON.parse of the match: it parses when the braces enclose members only
JsonParses(chars) ==
    LET body == SelectSeq(chars, LAMBDA c : c # " ")
    IN  /\ Len(body) >= 2
        /\ body[1] = "{"
        /\ body[Len(body)] = "}"
        /\ \A i \in 2..(Len(body) - 1) : body[i] \in Members

\* the object JSON.parse gives, cast to StorySynopsis unchecked; of
\* duplicate keys the last wins
ParsedSynopsis(chars) ==
    LET pages == {i \in 1..Len(chars) : chars[i] \in {"p2", "p0"}}
        last == CHOOSE i \in pages : \A j \in pages : i >= j
    IN  [type |-> "synopsis", title |-> "told by the model",
         estimatedPages |-> IF pages = {} THEN Undefined
                            ELSE IF chars[last] = "p2" THEN Number(2) ELSE Number(0),
         outline |-> <<>>]

\* createStorySynopsis from the collected content on: parse, or fall back
CreateStorySynopsis(context, content) ==
    LET jsonMatch == JsonMatch(CleanContent(content))
    IN  IF jsonMatch # Null /\ JsonParses(jsonMatch.val)
        THEN ParsedSynopsis(jsonMatch.val)
        ELSE CreateFallbackSynopsis(context)

\* a StoryPage
StoryPage(pageNumber, content) ==
    [type |-> "page", pageNumber |-> pageNumber, content |-> content]

GenerateNextPageAlwaysLast(synopsis, previousPages, content) ==
    [page |-> StoryPage(Len(previousPages) + 1, content), isLastPage |-> TRUE]

\* generateNextPage, given what the LLM wrote
GenerateNextPage(synopsis, previousPages, content) ==
    LET currentPageNum == Len(previousPages) + 1
    IN  [page |-> StoryPage(currentPageNum, content),
         isLastPage |-> AtLeast(currentPageNum, synopsis.estimatedPages)]

\* what a tool returns (JSON.stringify of it)
ToolResult(success, error, pageNumber) ==
    [success |-> success, error |-> error, page |-> pageNumber]

ToolRooms == {AgentRoom, "r2"}
NeverSucceeded == [context |-> FALSE, synopsis |-> FALSE]

\* a tool call: its room, where it stands, what had succeeded for the room
\* when it began, what it holds across its await, and its result
ToolCall(name, room, phase, held, result) ==
    [type |-> "call", name |-> name, room |-> room, phase |-> phase,
     began |-> succeeded[room], held |-> held, result |-> result]

ToolIdle == tool = Undefined
Awaiting(name) == ~ToolIdle /\ tool.name = name /\ tool.phase = "awaiting"
Returned(result) == [tool EXCEPT !.phase = "returned", !.result = result]

\* the tools of the agent of AgentRoom are called while its session runs;
\* the other room belongs to another job of the process
Callable(room) ==
    /\ ToolIdle
    /\ room = AgentRoom => pc \in {"starting", "active"} /\ shutPc # "done"

toolFrame == <<agentVars, serverVars, clientVars, gen, fullStory>>

\* the LLM call (or the import before it) rejects
LlmRejects == [type |-> "rejected"]

\* onboardingTool.execute up to `await processOnboarding(transcript)`
OnboardingToolBegin(room) ==
    /\ Callable(room)
    /\ tool' = ToolCall("create_story_context", room, "awaiting", Undefined, Undefined)
    /\ UNCHANGED <<sessionContexts, sessionStories, succeeded, toolFrame>>

\* processOnboarding settled: it rejects (no JSON in the answer, JSON.parse
\* or the summary throws) or resolves with a context
OnboardingToolEnd(outcome) ==
    /\ Awaiting("create_story_context")
    /\ IF outcome = LlmRejects
       THEN /\ tool' = Returned(ToolResult(FALSE,
                                           "Failed to extract persona JSON from response",
                                           Undefined))
            /\ UNCHANGED <<sessionContexts, succeeded>>
       ELSE /\ sessionContexts' = MapSet(sessionContexts, tool.room, outcome)
            /\ succeeded' = [succeeded EXCEPT ![tool.room].context = TRUE]
            /\ tool' = Returned(ToolResult(TRUE, "", Undefined))
    /\ UNCHANGED <<sessionStories, toolFrame>>

TypeErrorNoDescription == "Cannot read properties of undefined (reading 'description')"

\* createStoryTool.execute up to the LLM call of createStorySynopsis
CreateStoryToolBegin(room) ==
    /\ Callable(room)
    /\ \E context \in {MapGet(sessionContexts, room)} :
          tool' =
              IF ~Truthy(context)
              THEN ToolCall("create_story_synopsis", room, "returned", Undefined,
                            ToolResult(FALSE, "No story context found. Please set up the parent and child information first using create_story_context.",
                                       Undefined))
              ELSE IF SynopsisPromptThrows(context)
              THEN ToolCall("create_story_synopsis", room, "returned", Undefined,
                            ToolResult(FALSE, TypeErrorNoDescription, Undefined))
              ELSE ToolCall("create_story_synopsis", room, "awaiting", context, Undefined)
    /\ UNCHANGED <<sessionContexts, sessionStories, succeeded, toolFrame>>

\* the LLM call settled: it rejects, or its content is parsed and the
\* synopsis stored with no page
CreateStoryToolEnd(outcome) ==
    /\ Awaiting("create_story_synopsis")
    /\ IF outcome = LlmRejects
       THEN /\ tool' = Returned(ToolResult(FALSE, SdkErrorMessage, Undefined))
            /\ UNCHANGED <<sessionStories, succeeded>>
       ELSE /\ sessionStories' =
                  MapSet(sessionStories, tool.room,
                         [type |-> "story",
                          synopsis |-> CreateStorySynopsis(tool.held, outcome.val),
                          pages |-> <<>>])
            /\ succeeded' = [succeeded EXCEPT ![tool.room].synopsis = TRUE]
            /\ tool' = Returned(ToolResult(TRUE, "", Undefined))
    /\ UNCHANGED <<sessionContexts, toolFrame>>

\* tellStoryTool.execute: `if (!context || !storyData)`
NoStoryFoundIgnoresContext(context, storyData) == ~Truthy(storyData)
NoStoryFound(context, storyData) == ~Truthy(context) \/ ~Truthy(storyData)

\* tellStoryTool.execute up to the LLM call of the generator's first page;
\* a fresh streamStory generator whose loop condition fails is done at once
TellStoryToolBegin(room) ==
    /\ Callable(room)
    /\ \E context \in {MapGet(sessionContexts, room)},
          storyData \in {MapGet(sessionStories, room)} :
          tool' =
              IF NoStoryFound(context, storyData)
              THEN ToolCall("tell_story", room, "returned", Undefined,
                            ToolResult(FALSE,
                                       "No story found. Please create a story synopsis first.",
                                       Undefined))
              ELSE IF ~LessThan(0, storyData.synopsis.estimatedPages)
              THEN ToolCall("tell_story", room, "returned", Undefined,
                            ToolResult(FALSE, "Failed to generate story page", Undefined))
              ELSE ToolCall("tell_story", room, "awaiting", storyData, Undefined)
    /\ UNCHANGED <<sessionContexts, sessionStories, succeeded, toolFrame>>

\* the generator's first next() settled: the page is pushed on the storyData
\* object read at the beginning, which is the map's entry unless cleanupSession
\* has deleted it meanwhile
TellStoryToolEnd(outcome) ==
    /\ Awaiting("tell_story")
    /\ Len(tool.held.pages) < MaxTold
    /\ IF outcome = LlmRejects
       THEN /\ tool' = Returned(ToolResult(FALSE, SdkErrorMessage, Undefined))
            /\ UNCHANGED sessionStories
       ELSE \E next \in {GenerateNextPage(tool.held.synopsis, <<>>, outcome.val)} :
               /\ sessionStories' =
                     IF MapHas(sessionStories, tool.room)
                     THEN MapSet(sessionStories, tool.room,
                                 [tool.held EXCEPT !.pages = Append(@, next.page)])
                     ELSE sessionStories
               /\ tool' = Returned(ToolResult(TRUE, "", Number(next.page.pageNumber)))
    /\ UNCHANGED <<sessionContexts, succeeded, toolFrame>>

\* the agent has the tool's result
ToolDone ==
    /\ ~ToolIdle
    /\ tool.phase = "returned"
    /\ tool' = Undefined
    /\ UNCHANGED <<sessionContexts, sessionStories, succeeded, toolFrame>>

\* cleanupSession(sessionId), as the shutdown callback of the other room's
\* job calls it
CleanupSession(sessionId) ==
    /\ sessionContexts' = MapDelete(sessionContexts, sessionId)
    /\ sessionStories' = MapDelete(sessionStories, sessionId)
    /\ succeeded' = [succeeded EXCEPT ![sessionId] = NeverSucceeded]
    /\ UNCHANGED <<tool, toolFrame>>

\* what the tool specification draws from
ToolContexts == {StoryContext("Bo", l) : l \in {"quick", "long"}}
ToolContents == {Text(<<"x">>), Text(<<"{", "p2", "}">>), Text(<<"{", "p0", "}">>)}
PageTexts == {Str("Once upon a time")}

NextTools ==
    \/ AgentInitializeRoom(NoMetadata, TRUE)
    \/ \E b \in BOOLEAN : AgentSessionStarted(b)
    \/ AgentShutdownBegin
    \/ AgentShutdownEnd
    \/ \E r \in ToolRooms : OnboardingToolBegin(r)
    \/ \E o \in {LlmRejects} \cup ToolContexts : OnboardingToolEnd(o)
    \/ \E r \in ToolRooms : CreateStoryToolBegin(r)
    \/ \E o \in {LlmRejects} \cup ToolContents : CreateStoryToolEnd(o)
    \/ \E r \in ToolRooms : TellStoryToolBegin(r)
    \/ \E o \in {LlmRejects} \cup PageTexts : TellStoryToolEnd(o)
    \/ ToolDone
    \/ CleanupSession("r2")

SpecTools == InitAgent /\ [][NextTools]_vars

(***************************************************************************)
(* Properties of the storytelling tools.                                   *)
(***************************************************************************)
ToolReturned(name) == ~ToolIdle /\ tool.name = name /\ tool.phase = "returned"

\* C14: successive tell_story calls in one room session, after one
\* create_story_synopsis, return the story page by page: the k-th call
\* returns pageNumber k, and the pages recorded for the session are pages
\* 1..k in order with no page repeated.
C14_PageByPage ==
    /\ \A r \in ToolRooms :
          MapHas(sessionStories, r) =>
              \A i \in 1..Len(MapGet(sessionStories, r).pages) :
                  MapGet(sessionStories, r).pages[i].pageNumber = i
    /\ (/\ ToolReturned("tell_story")
        /\ tool.result.success
        /\ MapHas(sessionStories, tool.room)) =>
          tool.result.page = Number(Len(MapGet(sessionStories, tool.room).pages))

\* a call that comes before what it needs has succeeded for its room
OutOfOrder(call) ==
    \/ call.name = "create_story_synopsis" /\ ~call.began.context
    \/ call.name = "tell_story" /\ ~(call.began.context /\ call.began.synopsis)

C15_Inv ==
    (~ToolIdle /\ tool.phase = "returned" /\ tool.result.success) => ~OutOfOrder(tool)

C15_Step ==
    (ToolIdle /\ tool' # Undefined /\ OutOfOrder(tool')) =>
        /\ tool'.phase = "returned"
        /\ tool'.result.success = FALSE
        /\ sessionContexts' = sessionContexts
        /\ sessionStories' = sessionStories

C15_RefusedSeen ==
    /\ ToolReturned("tell_story")
    /\ OutOfOrder(tool)
    /\ MapHas(sessionContexts, tool.room)

\* C16: sessions are cleaned up on shutdown. Once the shutdown callback of
\* the room's session has run, the session registry holds no entry for the
\* room, no dataReceived listener of the session is attached, and no story
\* context or story is kept for the room, in every interleaving of the
\* callback with the asynchronous steps of initialize().
C16_CleanedUp ==
    shutPc = "done" =>
        /\ ~SessionHas(sessions, AgentRoom)
        /\ ~subscribed
        /\ ~MapHas(sessionContexts, AgentRoom)
        /\ ~MapHas(sessionStories, AgentRoom)

(***************************************************************************)
(* SpecSynopsis: calls of createStorySynopsis.  The answer of the LLM      *)
(* arrives chunk by chunk (`for await (const chunk of stream)`) and is     *)
(* parsed when the stream ends.                                            *)
(***************************************************************************)
MaxChunks == 5
SynopsisChunks == {"FENCE_JSON", "FENCE", " ", "{", "}", "p2", "x"}
SynopsisContexts == {StoryContext("Bo", l) : l \in {"quick", "medium", "bedtime", "long"}}

SynopsisCall(context, content, phase, result) ==
    [type |-> "createStorySynopsis", context |-> context, content |-> content,
     phase |-> phase, result |-> result]

Streaming == ~ToolIdle /\ tool.type = "createStorySynopsis" /\ tool.phase = "streaming"

synopsisFrame == <<agentVars, serverVars, clientVars, sessionContexts, sessionStories,
                   gen, fullStory, succeeded>>

\* the call up to the stream: buildSynopsisPrompt may throw
SynopsisBegin(context) ==
    /\ ToolIdle
    /\ tool' = IF SynopsisPromptThrows(context)
               THEN SynopsisCall(context, <<>>, "threw", Undefined)
               ELSE SynopsisCall(context, <<>>, "streaming", Undefined)
    /\ UNCHANGED synopsisFrame

\* content += chunk.delta.content
SynopsisChunk(chunk) ==
    /\ Streaming
    /\ Len(tool.content) < MaxChunks
    /\ tool' = [tool EXCEPT !.content = Append(@, chunk)]
    /\ UNCHANGED synopsisFrame

\* the stream ends: the content is parsed, or the fallback made
SynopsisEnd ==
    /\ Streaming
    /\ tool' = [tool EXCEPT !.phase = "returned",
                            !.result = CreateStorySynopsis(tool.context, tool.content)]
    /\ UNCHANGED synopsisFrame

\* the stream fails: the rejection is the caller's
SynopsisStreamFails ==
    /\ Streaming
    /\ tool' = [tool EXCEPT !.phase = "threw"]
    /\ UNCHANGED synopsisFrame

SynopsisDone ==
    /\ ~ToolIdle
    /\ tool.type = "createStorySynopsis"
    /\ tool.phase \in {"returned", "threw"}
    /\ tool' = Undefined
    /\ UNCHANGED synopsisFrame

NextSynopsis ==
    \/ \E context \in SynopsisContexts : SynopsisBegin(context)
    \/ \E chunk \in SynopsisChunks : SynopsisChunk(chunk)
    \/ SynopsisEnd
    \/ SynopsisStreamFails
    \/ SynopsisDone

SpecSynopsis == InitAgent /\ [][NextSynopsis]_vars

\* the response holds no { ... } at all
ContainsNoJsonObject(content) ==
    ~\E i, j \in 1..Len(content) : i < j /\ content[i] = "{" /\ content[j] = "}"

\* the object text of the response: from its first { to its last }
ObjectText(content) ==
    LET first == CHOOSE i \in 1..Len(content) :
                     content[i] = "{" /\ \A j \in 1..(i - 1) : content[j] # "{"
        last == CHOOSE i \in 1..Len(content) :
                    content[i] = "}" /\ \A j \in (i + 1)..Len(content) : content[j] # "}"
    IN  SubSeq(content, first, last)

NeedsFallback(content) ==
    ContainsNoJsonObject(content) \/ ~JsonParses(ObjectText(content))

PagesFor(length) ==
    CASE length = "quick" -> 3 [] length = "medium" -> 5 [] length = "bedtime" -> 8

\* C13: createStorySynopsis returns the hardcoded fallback synopsis whenever
\* the LLM response contains no JSON object or a JSON object that fails to
\* parse, and never throws for such a response; the fallback's estimatedPages
\* is 3, 5 or 8 for preferredStoryLength quick, medium or bedtime, and its
\* outline has min(5, estimatedPages) entries.
C13_Fallback ==
    (/\ ~ToolIdle
     /\ tool.type = "createStorySynopsis"
     /\ tool.phase = "returned"
     /\ NeedsFallback(tool.content)) =>
        LET pages == PagesFor(tool.context.preferredStoryLength)
        IN  /\ tool.result.title = tool.context.childName \o "'s Magical Adventure"
            /\ tool.result.estimatedPages = Number(pages)
            /\ Len(tool.result.outline) = (IF pages < 5 THEN pages ELSE 5)
            /\ tool.result.outline = SubSeq(OutlineBeats, 1, Len(tool.result.outline))

\* C13 witness: a fenced answer whose braces hold prose, for a quick story.
C13_Witness ==
    /\ ~ToolIdle
    /\ tool.type = "createStorySynopsis"
    /\ tool.phase = "returned"
    /\ tool.content = <<"FENCE_JSON", "{", "x", "}", "FENCE">>
    /\ tool.context.preferredStoryLength = "quick"
    /\ tool.result.estimatedPages = Number(3)
    /\ Len(tool.result.outline) = 3

\* an answer that parses is returned as it is
C13_ParsedSeen ==
    /\ ~ToolIdle
    /\ tool.type = "createStorySynopsis"
    /\ tool.phase = "returned"
    /\ tool.content = <<"FENCE_JSON", "{", "p2", "}", "FENCE">>
    /\ tool.result.estimatedPages = Number(2)

(***************************************************************************)
(* Store and play, against the history of the store actions (SpecManager). *)
(***************************************************************************)
StoredSoFar == {i \in StoredIds : stored[i] # Undefined}
Elements(seq) == {seq[i] : i \in 1..Len(seq)}

\* the recorded call is a play (store) request that reached its handler
PlayHandled ==
    /\ ~Idle
    /\ ReachedProcessAction
    /\ CallRequest.action = Str("play")
    /\ ~Rejected
StoreAnswered ==
    /\ ~Idle
    /\ ReachedProcessAction
    /\ CallRequest.action = Str("store")
    /\ lastResp.success

PlayOfUnknownId ==
    PlayHandled =>
        LET id == CallRequest.payload.id
        IN  stored[id.val] = Undefined =>
                /\ lastResp.success = FALSE
                /\ lastResp.data.id = id
                /\ Elements(lastResp.data.availableIds) = StoredSoFar
                /\ spoken = <<>>

TotalStoredCounts ==
    StoreAnswered =>
        /\ stored[CallRequest.payload.id.val] = CallRequest.payload.text
        /\ lastResp.data.totalStored = Cardinality(StoredSoFar)

\* C17 (as stated): after a store action succeeded for (id, text), a play
\* action for id makes the agent speak exactly the text most recently stored
\* under id and returns it; a play action for an id never stored returns
\* success = false with availableIds equal to the set of ids stored so far
\* and makes the agent speak nothing; totalStored returned by store equals
\* the number of distinct ids stored.
C17_RoundTrip ==
    /\ PlayHandled =>
          LET id == CallRequest.payload.id
          IN  stored[id.val] # Undefined =>
                  /\ spoken = <<stored[id.val]>>
                  /\ lastResp.success
                  /\ lastResp.data.text = stored[id.val]
    /\ PlayOfUnknownId
    /\ TotalStoredCounts

\* C17 (amended): a play action for a stored id passes exactly the text most
\* recently stored under id to session.say, and returns that text when
\* session.say resolves; when session.say rejects, play returns
\* success = false without data. The unknown-id and totalStored parts are
\* as stated.
C17_RoundTripWhenSaid ==
    /\ PlayHandled =>
          LET id == CallRequest.payload.id
          IN  stored[id.val] # Undefined =>
                  /\ spoken = <<stored[id.val]>>
                  /\ lastResp.success =>
                        lastResp.data.id = id /\ lastResp.data.text = stored[id.val]
                  /\ ~lastResp.success => lastResp.data = Undefined
    /\ PlayOfUnknownId
    /\ TotalStoredCounts

\* C17 witness: id "a" was stored twice with different texts and id "b" once;
\* play of "a" spoke and returned the later text.
C17_Witness ==
    /\ PlayHandled
    /\ CallRequest.payload.id = Str("a")
    /\ stored["a"] = Str("b")
    /\ stored["b"] # Undefined
    /\ MapKeys(textStorage) = <<"a", "b">>
    /\ spoken = <<Str("b")>>
    /\ lastResp.success
    /\ lastResp.data.text = Str("b")

\* play of an id never stored while another id is stored
C17_UnknownSeen ==
    /\ PlayHandled
    /\ CallRequest.payload.id = Str("b")
    /\ StoredSoFar = {"a"}
    /\ lastResp.success = FALSE
    /\ lastResp.data.availableIds = <<"a">>

(***************************************************************************)
(* change_voice sent as a data message in the agent's room (SpecAgent).    *)
(***************************************************************************)
C18_Step ==
    (Idle /\ ~Idle' /\ ReachedProcessAction' /\ CallRequest'.action = Str("change_voice")) =>
        LET voiceId == Field(CallRequest'.payload, "voice_id")
        IN  IF ~NonEmptyString(voiceId)
            THEN /\ lastResp'.success = FALSE
                 /\ tts' = tts
                 /\ sessions' = sessions
            ELSE IF SessionHas(sessions, AgentRoom)
            THEN /\ tts' = [tts EXCEPT ![SessionGet(sessions, AgentRoom).session] = voiceId.val]
                 /\ lastResp'.success
                 /\ lastResp'.data.voice_id = voiceId
            ELSE /\ lastResp'.success = FALSE
                 /\ lastResp'.error = Str("Session not found for this room")
                 /\ tts' = tts

\* C18: change_voice with a non-empty string voice_id, sent in a room whose
\* session is registered, sets that registered session's TTS voice to
\* voice_id and returns success with data.voice_id = voice_id; sent for a
\* room with no registered session it returns success = false ('Session not
\* found for this room') and leaves every session's TTS unchanged; a payload
\* without a non-empty string voice_id is rejected without touching any
\* session.
C18_ChangeVoice == [][C18_Step]_vars

(***************************************************************************)
(* SpecStream: generateFullStory driving a streamStory generator.  Each    *)
(* step is one stretch of the generator between its awaits and yields.     *)
(***************************************************************************)
MaxPages == 3
PageContents == {"Once", "Then", "The end"}

\* a synopsis as far as the generator reads it; estimatedPages is whatever
\* the parsed JSON or the fallback gave
Synopsis(estimatedPages) ==
    [type |-> "synopsis", title |-> "told by the model",
     estimatedPages |-> estimatedPages, outline |-> <<>>]
StreamSynopses == {Synopsis(Number(n)) : n \in -1..MaxPages} \cup {Synopsis(Undefined)}

\* the generator's frame (synopsis, pages, where it stands) and the pages
\* array of generateFullStory (collected)
Generator(synopsis, pages, collected, at, isLastPage) ==
    [type |-> "generator", synopsis |-> synopsis, pages |-> pages,
     collected |-> collected, at |-> at, isLastPage |-> isLastPage]

Running(at) == gen # Undefined /\ gen.at = at

streamFrame == <<agentVars, serverVars, clientVars, sessionContexts, sessionStories,
                 tool, succeeded>>

\* generateFullStory called: for await calls next() on a new generator
FullStoryBegin(synopsis) ==
    /\ gen = Undefined
    /\ fullStory = Undefined
    /\ gen' = Generator(synopsis, <<>>, <<>>, "test", FALSE)
    /\ UNCHANGED <<streamFrame, fullStory>>

\* while (pages.length < synopsis.estimatedPages)
StreamTest ==
    /\ Running("test")
    /\ gen' = [gen EXCEPT !.at = IF LessThan(Len(gen.pages), gen.synopsis.estimatedPages)
                                 THEN "awaiting" ELSE "done"]
    /\ UNCHANGED <<streamFrame, fullStory>>

\* generateNextPage resolved: pages.push(page); yield page; the consumer
\* pushes the page on its own array
StreamPageReturns(content) ==
    /\ Running("awaiting")
    /\ LET r == GenerateNextPage(gen.synopsis, gen.pages, content)
       IN  gen' = [gen EXCEPT !.pages = Append(@, r.page),
                              !.collected = Append(@, r.page),
                              !.isLastPage = r.isLastPage,
                              !.at = "yielded"]
    /\ UNCHANGED <<streamFrame, fullStory>>

\* the LLM call rejected: the generator, and generateFullStory with it, throws
StreamPageFails ==
    /\ Running("awaiting")
    /\ gen' = [gen EXCEPT !.at = "threw"]
    /\ UNCHANGED <<streamFrame, fullStory>>

\* next() after a yield: if (isLastPage) break
StreamResume ==
    /\ Running("yielded")
    /\ gen' = [gen EXCEPT !.at = IF gen.isLastPage THEN "done" ELSE "test"]
    /\ UNCHANGED <<streamFrame, fullStory>>

\* the generator returned: generateFullStory builds its StoryState
FullStoryEnd ==
    /\ Running("done")
    /\ fullStory' = [type |-> "state", synopsis |-> gen.synopsis, pages |-> gen.collected,
                     currentPage |-> Len(gen.collected), isComplete |-> TRUE]
    /\ gen' = Undefined
    /\ UNCHANGED streamFrame

\* the caller has the StoryState, or the rejection
FullStoryDone ==
    /\ \/ fullStory # Undefined
       \/ Running("threw")
    /\ fullStory' = Undefined
    /\ gen' = Undefined
    /\ UNCHANGED streamFrame

NextStream ==
    \/ \E synopsis \in StreamSynopses : FullStoryBegin(synopsis)
    \/ StreamTest
    \/ \E content \in PageContents : StreamPageReturns(content)
    \/ StreamPageFails
    \/ StreamResume
    \/ FullStoryEnd
    \/ FullStoryDone

\* every stretch of code runs to its end, and an LLM call that does not
\* reject resolves
SpecStream ==
    /\ InitAgent
    /\ [][NextStream]_vars
    /\ WF_vars(StreamTest)
    /\ WF_vars(\E content \in PageContents : StreamPageReturns(content))
    /\ WF_vars(StreamResume)
    /\ WF_vars(FullStoryEnd)

\* the number of pages the story of a synopsis has
PagesDue(synopsis) ==
    IF synopsis.estimatedPages.num >= 1 THEN synopsis.estimatedPages.num ELSE 0

Numbered(pages) == \A i \in 1..Len(pages) : pages[i].pageNumber = i

C20_Inv ==
    /\ (gen # Undefined /\ gen.synopsis.estimatedPages.type = "number") =>
          /\ Numbered(gen.collected)
          /\ Len(gen.collected) <= PagesDue(gen.synopsis)
          /\ gen.at = "done" => Len(gen.collected) = PagesDue(gen.synopsis)
    /\ (fullStory # Undefined /\ fullStory.synopsis.estimatedPages.type = "number") =>
          /\ Numbered(fullStory.pages)
          /\ Len(fullStory.pages) = PagesDue(fullStory.synopsis)
          /\ fullStory.currentPage = Len(fullStory.pages)
          /\ fullStory.isComplete = TRUE

\* C20: streamStory yields exactly estimatedPages pages when estimatedPages
\* >= 1, with pageNumber 1, 2, ..., estimatedPages in that order, yields no
\* page when estimatedPages <= 0, and always terminates provided each LLM
\* call returns; generateFullStory then returns pages of that length with
\* currentPage = pages.length and isComplete = true.
C20_StreamStory ==
    /\ []C20_Inv
    /\ (gen # Undefined) ~> (fullStory # Undefined \/ Running("threw"))

\* C20 witness: a full story of MaxPages pages was returned.
C20_Witness ==
    /\ fullStory # Undefined
    /\ fullStory.synopsis.estimatedPages = Number(MaxPages)
    /\ Len(fullStory.pages) = MaxPages
    /\ fullStory.pages[MaxPages].pageNumber = MaxPages
    /\ fullStory.currentPage = MaxPages

\* a story of no page, for estimatedPages below 1
C20_NoPageSeen ==
    /\ fullStory # Undefined
    /\ fullStory.synopsis.estimatedPages = Number(-1)
    /\ fullStory.pages = <<>>
    /\ fullStory.currentPage = 0

(***************************************************************************)
(* components/onboarding/voice-recorder.tsx: the VoiceRecorder component.  *)
(* Time passes in seconds: a step of one second fires every live interval  *)
(* once.  startRecording is memoised with no dependencies, so the          *)
(* stopRecording it calls from the interval is the one of the first        *)
(* render, which saw isRecording = false.  A stopped recorder's onstop     *)
(* event fires before the next click and before the next second is over.  *)
(***************************************************************************)
MIN_RECORDING_TIME == 10
MAX_RECORDING_TIME == 60
MaxIntervals == 2

Smaller(a, b) == IF a < b THEN a ELSE b

\* new Blob(chunksRef.current): seconds is how long the chunks recorded,
\* counted up to MIN_RECORDING_TIME
Blob(seconds) == [type |-> "blob", seconds |-> seconds]

\* the component after its first render
NewRecorder ==
    [isRecording |-> FALSE, recordingTime |-> 0, audioBlob |-> Null,
     starting |-> 0,        \* startRecording calls awaiting getUserMedia
     current |-> "none",    \* state of mediaRecorderRef.current
     stopping |-> 0,        \* stopped recorders whose onstop has not fired
     intervals |-> 0,       \* live setInterval timers
     timerRef |-> FALSE,    \* timerRef.current holds a live timer
     elapsed |-> 0,         \* seconds recorded since chunksRef was emptied
     isUploading |-> FALSE,
     submitted |-> Undefined]

\* stopRecording as seen from a closure in which isRecording was `seen`
StopRecording(r, seen) ==
    IF r.current # "none" /\ seen
    THEN [r EXCEPT !.current = "inactive",
                   !.stopping = IF r.current = "recording" THEN @ + 1 ELSE @,
                   !.isRecording = FALSE,
                   !.intervals = IF r.timerRef THEN @ - 1 ELSE @,
                   !.timerRef = FALSE]
    ELSE r

\* the isRecording the interval callback's stopRecording closed over
IsRecordingAtFirstRender == FALSE

\* one interval callback: setRecordingTime(prev => ...)
Tick(r) ==
    IF r.recordingTime >= MAX_RECORDING_TIME - 1
    THEN [StopRecording(r, IsRecordingAtFirstRender)
             EXCEPT !.recordingTime = MAX_RECORDING_TIME]
    ELSE [r EXCEPT !.recordingTime = @ + 1]

RECURSIVE Ticks(_, _)
Ticks(r, n) == IF n = 0 THEN r ELSE Ticks(Tick(r), n - 1)

\* canSubmit
CanSubmit(r) ==
    r.audioBlob # Null /\ r.recordingTime >= MIN_RECORDING_TIME /\ ~r.isUploading

recorderFrame == <<agentVars, serverVars, storyVars, page, conn, onboardingPage, flow>>

\* the microphone button while not recording: startRecording up to its await
RecStartClick ==
    /\ recorder.audioBlob = Null
    /\ ~recorder.isRecording
    /\ recorder.stopping = 0
    /\ recorder.starting + recorder.intervals < MaxIntervals
    /\ recorder' = [recorder EXCEPT !.starting = @ + 1]
    /\ UNCHANGED recorderFrame

\* getUserMedia resolved: a new MediaRecorder is started and a new interval set
RecStartEnd ==
    /\ recorder.starting > 0
    /\ recorder' = [recorder EXCEPT !.starting = @ - 1,
                                    !.current = "recording",
                                    !.elapsed = 0,
                                    !.isRecording = TRUE,
                                    !.recordingTime = 0,
                                    !.intervals = @ + 1,
                                    !.timerRef = TRUE]
    /\ UNCHANGED recorderFrame

\* getUserMedia rejected or the MediaRecorder could not be made: an alert
RecStartFails ==
    /\ recorder.starting > 0
    /\ recorder' = [recorder EXCEPT !.starting = @ - 1]
    /\ UNCHANGED recorderFrame

\* a second passes
RecSecond ==
    /\ recorder.intervals > 0 \/ recorder.current = "recording"
    /\ recorder.stopping = 0
    /\ LET recorded == IF recorder.current = "recording"
                       THEN [recorder EXCEPT !.elapsed =
                                Smaller(MIN_RECORDING_TIME, @ + 1)]
                       ELSE recorder
       IN  recorder' = Ticks(recorded, recorder.intervals)
    /\ recorder' # recorder
    /\ UNCHANGED recorderFrame

\* the button while recording: stopRecording of the current render
RecStopClick ==
    /\ recorder.audioBlob = Null
    /\ recorder.isRecording
    /\ recorder' = StopRecording(recorder, recorder.isRecording)
    /\ UNCHANGED recorderFrame

\* mediaRecorder.onstop
RecOnStop ==
    /\ recorder.stopping > 0
    /\ recorder' = [recorder EXCEPT !.stopping = @ - 1,
                                    !.audioBlob = Blob(recorder.elapsed)]
    /\ UNCHANGED recorderFrame

\* resetRecording, behind the Re-record button
RecReset ==
    /\ recorder.audioBlob # Null
    /\ ~recorder.isUploading
    /\ recorder' = [recorder EXCEPT !.audioBlob = Null, !.recordingTime = 0]
    /\ UNCHANGED recorderFrame

\* handleSubmit, behind the button that canSubmit enables; the parent sets
\* isUploading while it handles the recording
RecSubmit ==
    /\ CanSubmit(recorder)
    /\ recorder' = IF recorder.audioBlob # Null
                      /\ recorder.recordingTime >= MIN_RECORDING_TIME
                   THEN [recorder EXCEPT
                            !.submitted = [blob |-> recorder.audioBlob,
                                           recordingTime |-> recorder.recordingTime],
                            !.isUploading = TRUE]
                   ELSE recorder
    /\ UNCHANGED recorderFrame

\* the parent is done with the recording
RecUploadEnds ==
    /\ recorder.isUploading
    /\ recorder' = [recorder EXCEPT !.submitted = Undefined, !.isUploading = FALSE]
    /\ UNCHANGED recorderFrame

InitRecorder ==
    /\ AgentAtRest
    /\ ServerAtRest
    /\ StoryAtRest
    /\ page = Undefined
    /\ conn = Undefined
    /\ onboardingPage = Undefined
    /\ flow = Undefined
    /\ recorder = NewRecorder

NextRecorder ==
    \/ RecStartClick
    \/ RecStartEnd
    \/ RecStartFails
    \/ RecSecond
    \/ RecStopClick
    \/ RecOnStop
    \/ RecReset
    \/ RecSubmit
    \/ RecUploadEnds

SpecRecorder == InitRecorder /\ [][NextRecorder]_vars

\* C21: recording stops automatically when the elapsed time reaches
\* MAX_RECORDING_TIME (60 s): once recordingTime is 60 the MediaRecorder is
\* stopped, isRecording is false and the interval timer is cleared, without
\* the user pressing stop; recordingTime never exceeds 60.
C21_AutoStop ==
    /\ recorder.recordingTime <= MAX_RECORDING_TIME
    /\ recorder.recordingTime = MAX_RECORDING_TIME =>
          /\ recorder.current # "recording"
          /\ ~recorder.isRecording
          /\ recorder.intervals = 0

C22_Step ==
    /\ (recorder.submitted = Undefined /\ recorder'.submitted # Undefined) =>
          /\ recorder'.submitted.blob # Null
          /\ recorder'.submitted.blob.seconds >= MIN_RECORDING_TIME
    /\ (recorder.audioBlob # Null /\ recorder'.audioBlob = Null) =>
          recorder'.recordingTime = 0

\* C22: onRecordingComplete is called only with a non-null recorded blob
\* whose recorded time is at least MIN_RECORDING_TIME (10 s); after
\* resetRecording the blob is null and recordingTime is 0, so nothing can be
\* submitted until a new recording of at least 10 s exists.
C22_SubmitNeedsTenSeconds == [][C22_Step]_vars

(***************************************************************************)
(* SpecVoice: AgentSessionManager.updateVoiceId called on a manager whose  *)
(* session exists, along the manager's lifecycle.                          *)
(***************************************************************************)
\* the literal updateVoiceId assigns and builds the TTS with
UPDATED_VOICE_ID == "YEPxsTk32dk1sVTotPBJ"

NewVoiceIds == {"a", "b", DEFAULT_VOICE_ID, UPDATED_VOICE_ID}

\* the voice updateVoiceId(newVoiceId) sets
UpdatedVoice(newVoiceId) == UPDATED_VOICE_ID

AgentUpdateVoiceId(newVoiceId) ==
    /\ Idle
    /\ pc \in {"starting", "active", "startFailed"}
    /\ managerVoiceId' = UpdatedVoice(newVoiceId)
    /\ tts' = [tts EXCEPT ![AgentSession] = UpdatedVoice(newVoiceId)]
    /\ lastReq' = [type |-> "updateVoiceId", newVoiceId |-> newVoiceId]
    /\ UNCHANGED <<handlers, managerRoom, sessions, textStorage, opLog, pc, shutPc,
                   subscribed, lastFrom, lastResp, resps, called, spoken, threw,
                   stored, jobMetadata, serverVars, storyVars, clientVars>>

NextVoice ==
    \/ \E m \in JobMetadata, c \in BOOLEAN : AgentInitializeRoom(m, c)
    \/ \E b \in BOOLEAN : AgentSessionStarted(b)
    \/ AgentShutdownBegin
    \/ AgentShutdownEnd
    \/ \E v \in NewVoiceIds : AgentUpdateVoiceId(v)
    \/ CallSettled

SpecVoice == InitAgent /\ [][NextVoice]_vars

\* C23: AgentSessionManager.updateVoiceId(v) updates the voice: after it
\* returns, the manager's voiceId is v and the session's TTS is a new TTS
\* whose voice is v, for every voice id v.
C23_UpdateVoiceId ==
    (~Idle /\ lastReq.type = "updateVoiceId") =>
        /\ managerVoiceId = lastReq.newVoiceId
        /\ tts[AgentSession] = lastReq.newVoiceId


(***************************************************************************)
(* SpecLibrary: the story endpoints alone, called by two signed-in users,  *)
(* with room for three stories.                                            *)
(***************************************************************************)
LibraryIds == {"story_1", "story_2", "story_3"}
LibraryRequests ==
    RequestsOf(SignedIn, "POST", StartPath,
               {ModeBody(Str(m)) : m \in StoryModes}, {FALSE})
    \cup RequestsOf(SignedIn, "GET", <<"api", "story", "history">>, {EmptyBody}, {FALSE})
    \cup UNION {RequestsOf(SignedIn, "GET", <<"api", "story", id>>, {EmptyBody}, {FALSE}) :
                  id \in LibraryIds}

LibraryRouted == ByRoute(LibraryRequests)
NextLibrary ==
    \/ \E req \in LibraryRouted["story.start"], rnd \in 1..Len(PREDEFINED_STORIES),
          id \in LibraryIds, d \in BOOLEAN : HttpStoryStart(req, rnd, id, d)
    \/ \E req \in LibraryRouted["story.history"], d \in BOOLEAN : HttpStoryHistory(req, d)
    \/ \E req \in LibraryRouted["story.get"], d \in BOOLEAN : HttpStoryGet(req, d)
    \/ HttpDone

SpecLibrary == InitServer /\ [][NextLibrary]_vars

\* the positions in ss of the stories that clerkUserId created
StoriesOf(ss, clerkUserId) == {i \in 1..Len(ss) : ss[i].clerkUserId = clerkUserId}
LastOf(positions) == CHOOSE i \in positions : \A j \in positions : j <= i

\* a start in mode 'previous' has just been answered with success
PreviousServed ==
    /\ Served
    /\ http'.req.method = "POST"
    /\ http'.req.path = StartPath
    /\ http'.req.body.mode = Str("previous")
    /\ http'.res.status = 200

\* C24: a successful start in mode 'previous' returns the text of the story
\* the requesting user created last, or the first predefined story when that
\* user has created none; the stories of other users play no part.
C24_Step ==
    PreviousServed =>
        LET mine == StoriesOf(stories, http'.req.userId.val)
        IN  http'.res.json.text =
                IF mine = {} THEN PREDEFINED_STORIES[1] ELSE stories[LastOf(mine)].text
C24_PreviousStory == [][C24_Step]_vars

\* u1 created two stories with different texts, and the second is replayed
C24_Witness ==
    /\ IsRequest("POST", StartPath)
    /\ http.req.body.mode = Str("previous")
    /\ http.req.userId = Str("u1")
    /\ http.res.status = 200
    /\ Len(stories) = 3
    /\ stories[1].clerkUserId = "u1"
    /\ stories[2].clerkUserId = "u1"
    /\ stories[1].text # stories[2].text
    /\ http.res.json.text = stories[2].text

\* u2's story is the newest of all, and u1 is given u1's own
C24_OtherUserSeen ==
    /\ IsRequest("POST", StartPath)
    /\ http.req.body.mode = Str("previous")
    /\ http.req.userId = Str("u1")
    /\ http.res.status = 200
    /\ Len(stories) = 3
    /\ stories[1].clerkUserId = "u1"
    /\ stories[2].clerkUserId = "u2"
    /\ stories[1].text # stories[2].text
    /\ stories[2].text # PREDEFINED_STORIES[1]
    /\ http.res.json.text = stories[1].text


\* a story endpoint has just answered with success
StoryServed(route) ==
    /\ Served
    /\ Dispatch(http'.req) = route
    /\ http'.res.status = 200

\* C26: a story that one user created is never returned to a different
\* authenticated user by POST /api/story/start, GET /api/story/history or
\* GET /api/story/:id.
C26_Step ==
    /\ StoryServed("story.start") =>
          GetStory(stories', http'.res.json.storyId).clerkUserId = http'.req.userId.val
    /\ StoryServed("story.history") =>
          \A i \in 1..Len(http'.res.json.stories) :
              http'.res.json.stories[i].clerkUserId = http'.req.userId.val
    /\ StoryServed("story.get") =>
          http'.res.json.clerkUserId = http'.req.userId.val
C26_OwnStoriesOnly == [][C26_Step]_vars

\* u2 is handed a story of u1
C26_LeakSeen ==
    /\ ~ServerIdle
    /\ Dispatch(http.req) = "story.get"
    /\ http.res.status = 200
    /\ http.req.userId = Str("u2")
    /\ http.res.json.clerkUserId = "u1"


\* POST /api/onboarding/complete of a signed-in user has just been answered,
\* and the store was reachable
CompleteServed ==
    /\ Served
    /\ Dispatch(http'.req) = "onboarding.complete"
    /\ http'.res.status \in {200, 404}

\* C27: every POST /api/onboarding/complete of a user who has a user record is
\* answered success and leaves onboardingComplete = true, also when it was
\* true before; 404 'User not found' is the answer only when the user has no
\* record.
C27_Step ==
    CompleteServed =>
        LET clerkUserId == http'.req.userId.val
        IN  IF GetUser(users, clerkUserId) = Null
            THEN http'.res.status = 404
            ELSE /\ http'.res.status = 200
                 /\ GetUser(users', clerkUserId).onboardingComplete = TRUE
C27_CompleteIdempotent == [][C27_Step]_vars

\* a user whose onboarding is complete is told 'User not found'
C27_NotFoundSeen ==
    /\ ~ServerIdle
    /\ Dispatch(http.req) = "onboarding.complete"
    /\ http.res.status = 404
    /\ GetUser(users, http.req.userId.val) # Null
    /\ GetUser(users, http.req.userId.val).onboardingComplete = TRUE


(***************************************************************************)
(* SpecChunks: POST /api/story/audio-chunks with every story text of up to *)
(* MaxText characters.                                                     *)
(***************************************************************************)
MaxText == 5
TextChars == {"a", LongWord, " ", "\n", "."}
RECURSIVE TextsUpTo(_)
TextsUpTo(n) ==
    IF n = 0 THEN {<<>>}
    ELSE TextsUpTo(n - 1)
         \cup {Append(t, c) : t \in {x \in TextsUpTo(n - 1) : Len(x) = n - 1},
                              c \in TextChars}
StoryTexts == TextsUpTo(MaxText)

ChunkRequests ==
    RequestsOf({Str("u1")}, "POST", <<"api", "story", "audio-chunks">>,
               {Body(Undefined, Undefined, Undefined, Undefined, Undefined, Text(t),
                     Undefined) : t \in StoryTexts},
               {FALSE})

NextChunks ==
    \/ \E req \in ChunkRequests, d \in BOOLEAN : HttpStoryAudioChunks(req, d)
    \/ HttpDone

SpecChunks == InitServer /\ [][NextChunks]_vars

\* the characters of a text that are not whitespace, in order
NonWhitespace(chars) == SelectSeq(chars, LAMBDA c : c \notin Whitespace)

\* the chunk list of a story text has been returned
ChunksReturned ==
    /\ ~ServerIdle
    /\ Dispatch(http.req) = "story.audioChunks"
    /\ http.res.status = 200

\* C25: the chunks that POST /api/story/audio-chunks returns carry the indices
\* 0..totalChunks-1 in order, and their texts, concatenated in that order,
\* hold everything of storyText that is not whitespace.
C25_ChunksCoverText ==
    ChunksReturned =>
        LET chunks == http.res.json.chunks
        IN  /\ http.res.json.totalChunks = Len(chunks)
            /\ \A k \in 1..Len(chunks) : chunks[k].index = k - 1
            /\ NonWhitespace(Flatten([k \in 1..Len(chunks) |-> chunks[k].text]))
                   = NonWhitespace(http.req.body.storyText.val)

\* the indices alone
C25_IndicesInOrder ==
    ChunksReturned =>
        /\ http.res.json.totalChunks = Len(http.res.json.chunks)
        /\ \A k \in 1..Len(http.res.json.chunks) : http.res.json.chunks[k].index = k - 1

\* a long paragraph loses the words after its last full stop
C25_LossSeen ==
    /\ ChunksReturned
    /\ http.req.body.storyText.val = <<LongWord, ".", "a">>
    /\ http.res.json.chunks = <<[index |-> 0, text |-> <<LongWord, ".">>]>>


(***************************************************************************)
(* SpecFlow: components/onboarding/onboarding-flow.tsx.  OnboardingFlow    *)
(* holds the step, the two names, isLoading and error; each handler runs   *)
(* up to its fetch and goes on when the fetch has settled.  `call` is the  *)
(* fetch in flight, `fetched` the last one that settled, `redirect` the    *)
(* timer that pushes '/'.                                                  *)
(***************************************************************************)
Steps == <<"welcome", "names", "voice", "complete">>
StepRank(step) == CHOOSE k \in 1..Len(Steps) : Steps[k] = step

\* what a fetch comes to: a response with ok, a response without, a rejection
\* (of fetch, or of getToken before it)
FetchAnswers == {"ok", "notOk", "rejects"}
TypedNames == {<<>>, <<" ">>, <<"A">>}
NoFetch == [url |-> "none", answer |-> "none"]
Fetched(url, answer) == [url |-> url, answer |-> answer]
NoRedirect == [delay |-> 0, pushed |-> FALSE]

NewFlow ==
    [step |-> "welcome", parentName |-> <<>>, childName |-> <<>>, isLoading |-> FALSE,
     error |-> "null", call |-> "none", fetched |-> NoFetch, redirect |-> NoRedirect]

flowFrame == <<agentVars, serverVars, storyVars, page, conn, onboardingPage, recorder>>

\* the button of the welcome step
FlowWelcomeNext ==
    /\ flow.step = "welcome"
    /\ flow' = [flow EXCEPT !.step = "names"]
    /\ UNCHANGED flowFrame

\* the two inputs of the names step
FlowTypeNames(parent, child) ==
    /\ flow.step = "names"
    /\ flow' = [flow EXCEPT !.parentName = parent, !.childName = child]
    /\ flow' # flow
    /\ UNCHANGED flowFrame

\* handleNamesSubmit up to the fetch; the submit button is disabled while
\* loading and while a trimmed name is empty
FlowNamesSubmit ==
    /\ flow.step = "names"
    /\ ~flow.isLoading
    /\ Trim(flow.parentName) # <<>>
    /\ Trim(flow.childName) # <<>>
    /\ flow' = [flow EXCEPT !.isLoading = TRUE, !.error = "null", !.call = "names"]
    /\ UNCHANGED flowFrame

\* handleNamesSubmit from the answer of POST /api/onboarding on
FlowNamesEnd(answer) ==
    /\ flow.call = "names"
    /\ flow' = [flow EXCEPT
                  !.step = IF answer = "ok" THEN "voice" ELSE @,
                  !.error = IF answer = "ok" THEN @
                            ELSE "Something went wrong. Please try again.",
                  !.isLoading = FALSE,
                  !.call = "none",
                  !.fetched = IF answer = "rejects" THEN @
                              ELSE Fetched("/api/onboarding", answer)]
    /\ UNCHANGED flowFrame

\* handleVoiceRecordingComplete up to the first fetch; the recorder is shown
\* in the voice step and cannot submit while isUploading
FlowRecordingComplete ==
    /\ flow.step = "voice"
    /\ ~flow.isLoading
    /\ flow' = [flow EXCEPT !.isLoading = TRUE, !.error = "null", !.call = "voice/create"]
    /\ UNCHANGED flowFrame

\* the answer of POST /api/onboarding/voice/create: a response that is not ok
\* is only warned about
FlowVoiceCreateEnd(answer) ==
    /\ flow.call = "voice/create"
    /\ flow' = IF answer = "rejects"
               THEN [flow EXCEPT
                       !.error = "Failed to create voice clone. Please try again.",
                       !.isLoading = FALSE, !.call = "none"]
               ELSE [flow EXCEPT
                       !.call = "complete",
                       !.fetched = Fetched("/api/onboarding/voice/create", answer)]
    /\ UNCHANGED flowFrame

\* handleVoiceRecordingComplete from the answer of POST
\* /api/onboarding/complete on
FlowVoiceCompleteEnd(answer) ==
    /\ flow.call = "complete"
    /\ flow' = [flow EXCEPT
                  !.step = IF answer = "ok" THEN "complete" ELSE @,
                  !.redirect = IF answer = "ok" THEN [delay |-> 3000, pushed |-> FALSE]
                               ELSE @,
                  !.error = IF answer = "ok" THEN @
                            ELSE "Failed to create voice clone. Please try again.",
                  !.isLoading = FALSE,
                  !.call = "none",
                  !.fetched = IF answer = "rejects" THEN @
                              ELSE Fetched("/api/onboarding/complete", answer)]
    /\ UNCHANGED flowFrame

\* skipVoiceClone goes on after every response: it awaits the fetch and does
\* not read response.ok
SkipGoesOn(answer) == answer # "rejects"

\* skipVoiceClone up to the fetch; the button is disabled while loading
FlowSkip ==
    /\ flow.step = "voice"
    /\ ~flow.isLoading
    /\ flow' = [flow EXCEPT !.isLoading = TRUE, !.call = "skip"]
    /\ UNCHANGED flowFrame

\* skipVoiceClone from the answer of POST /api/onboarding/complete on
FlowSkipEnd(answer) ==
    /\ flow.call = "skip"
    /\ flow' = [flow EXCEPT
                  !.step = IF SkipGoesOn(answer) THEN "complete" ELSE @,
                  !.redirect = IF SkipGoesOn(answer)
                               THEN [delay |-> 2000, pushed |-> FALSE] ELSE @,
                  !.isLoading = FALSE,
                  !.call = "none",
                  !.fetched = IF answer = "rejects" THEN @
                              ELSE Fetched("/api/onboarding/complete", answer)]
    /\ UNCHANGED flowFrame

\* the timer fires: router.push('/') and router.refresh()
FlowRedirect ==
    /\ flow.redirect.delay > 0
    /\ ~flow.redirect.pushed
    /\ flow' = [flow EXCEPT !.redirect.pushed = TRUE]
    /\ UNCHANGED flowFrame

InitFlow ==
    /\ AgentAtRest
    /\ ServerAtRest
    /\ StoryAtRest
    /\ page = Undefined
    /\ conn = Undefined
    /\ onboardingPage = Undefined
    /\ recorder = Undefined
    /\ flow = NewFlow

NextFlow ==
    \/ FlowWelcomeNext
    \/ \E parent \in TypedNames, child \in TypedNames : FlowTypeNames(parent, child)
    \/ FlowNamesSubmit
    \/ \E answer \in FetchAnswers : FlowNamesEnd(answer)
    \/ FlowRecordingComplete
    \/ \E answer \in FetchAnswers : FlowVoiceCreateEnd(answer)
    \/ \E answer \in FetchAnswers : FlowVoiceCompleteEnd(answer)
    \/ FlowSkip
    \/ \E answer \in FetchAnswers : FlowSkipEnd(answer)
    \/ FlowRedirect

SpecFlow == InitFlow /\ [][NextFlow]_vars

\* C28: the flow's step only moves forward through welcome, names, voice,
\* complete; it becomes 'voice' only when POST /api/onboarding has just been
\* answered ok, and it becomes 'complete', with the redirect scheduled, only
\* when POST /api/onboarding/complete has just been answered ok, after a
\* recording and after a skip alike.
C28_Step ==
    /\ StepRank(flow'.step) >= StepRank(flow.step)
    /\ (flow.step # "voice" /\ flow'.step = "voice") =>
          /\ flow.call = "names"
          /\ flow'.fetched = Fetched("/api/onboarding", "ok")
    /\ (flow.step # "complete" /\ flow'.step = "complete") =>
          /\ flow.call \in {"complete", "skip"}
          /\ flow'.fetched = Fetched("/api/onboarding/complete", "ok")
    /\ (flow.redirect = NoRedirect /\ flow'.redirect # NoRedirect) =>
          /\ flow'.step = "complete"
          /\ flow'.fetched = Fetched("/api/onboarding/complete", "ok")
C28_ForwardOnSuccess == [][C28_Step]_vars

\* the part of C28 that does not concern the skip path
C28_StepExceptSkip ==
    /\ StepRank(flow'.step) >= StepRank(flow.step)
    /\ (flow.step # "voice" /\ flow'.step = "voice") =>
          /\ flow.call = "names"
          /\ flow'.fetched = Fetched("/api/onboarding", "ok")
    /\ (flow.step # "complete" /\ flow'.step = "complete" /\ flow.call # "skip") =>
          /\ flow.call = "complete"
          /\ flow'.fetched = Fetched("/api/onboarding/complete", "ok")
          /\ flow'.redirect = [delay |-> 3000, pushed |-> FALSE]
C28_ForwardExceptSkip == [][C28_StepExceptSkip]_vars

\* the flow shows 'complete' and has pushed '/' after a skip whose request
\* was refused
C28_SkipRefusedSeen ==
    /\ flow.step = "complete"
    /\ flow.redirect = [delay |-> 2000, pushed |-> TRUE]
    /\ flow.fetched = Fetched("/api/onboarding/complete", "notOk")


\* C29: a request for /onboarding by a signed-in user whose onboarding is
\* complete is redirected to '/', and the onboarding flow is not rendered; a
\* request without a signed-in user is redirected to /sign-in.
C29_OnboardingRedirects ==
    (onboardingPage # Undefined) =>
        /\ ~Truthy(onboardingPage.userId) => onboardingPage.served = "/sign-in"
        /\ (/\ Truthy(onboardingPage.userId)
            /\ onboardingPage.fetched = "answered"
            /\ Onboarded(users, onboardingPage.userId)) =>
              onboardingPage.served = "/"

\* the part of C29 about requests without a signed-in user
C29_SignInRedirect ==
    (onboardingPage # Undefined /\ ~Truthy(onboardingPage.userId)) =>
        onboardingPage.served = "/sign-in"

\* the flow is rendered for a user whose onboarding is complete
C29_FlowAfterCompleteSeen ==
    /\ onboardingPage # Undefined
    /\ onboardingPage.userId = Str("u1")
    /\ onboardingPage.fetched = "answered"
    /\ Onboarded(users, onboardingPage.userId)
    /\ onboardingPage.served = "flow"

====
